---------------------------- MODULE Spec2Model ----------------------------
(***************************************************************************)
(* A model of sled's configuration layer (src/src/config):                 *)
(*   - the global error register of Config (config.rs:330-368), a single   *)
(*     atomic pointer guarded by epoch-based reclamation;                  *)
(*   - the open() pipeline with the persisted configuration record;        *)
(*   - the RunningConfig session handles and the data-file lock;           *)
(*   - gen_temp_path and the path of a ConfigBuilder.                      *)
(***************************************************************************)
EXTENDS Integers, Sequences, FiniteSets, TLC

(***************************************************************************)
(* Part 1.  The global error register.                                     *)
(***************************************************************************)

\* Bounds of the register model.
NumThreads == 2
NumAddrs == 2
NumErrors == 2

Threads == 1..NumThreads
Addrs == 1..NumAddrs
Errors == 1..NumErrors

\* Shared::null() / Shared::default(): the null pointer.
Null == 0
\* global_error() returned Ok(()).
RetOk == 0
\* No call of global_error() has returned yet on this thread.
NoRet == -1
\* What a read through a dangling pointer may yield besides an old error value.
Poison == -2

VARIABLES
    global_error,   \* Atomic<Error>: Null or the address of the installed error
    mem,            \* the heap: address -> [live, val]
    garbage,        \* deferred destructions: set of [ptr, waiting]
    tpc,            \* each thread's position
    pinned,         \* each thread: does it hold an epoch guard
    errArg,         \* each thread: error_value of the running set_global_error
    owned,          \* each thread: the Owned<Error> it allocated (or Null)
    loaded,         \* each thread: the Shared<Error> it loaded or swapped out
    ret             \* each thread: what its last global_error() returned

errVars == <<global_error, mem, garbage, tpc, pinned, errArg, owned, loaded, ret>>

VARIABLES
    no_zstd,        \* the build has the 'no_zstd' feature
    heap_dir,       \* the data directory and its heap/ subdirectory exist
    conf,           \* the bytes of <path>/conf, or Absent
    conf_tmp,       \* the bytes of <path>/conf.tmp, or Absent
    sentinel,       \* DO_NOT_USE_THIS_DIRECTORY_FOR_ANYTHING exists
    db,             \* the inode <path>/db names, or NoInode
    lock,           \* each inode: the process whose open file holds its lock
    cfg,            \* each process: the options of its Config
    config_held,    \* each process: the caller still owns a Config handle
    pc,             \* each process: where its open() stands
    result,         \* each process: what its last open() returned
    wfd,            \* each process: where the inode of its conf.tmp handle is
    file,           \* each process: the inode of its open data file
    handles,        \* each process: the state of each RunningConfig handle
    unlock_calls,   \* each process: explicit unlock() calls of its session
    prev_ok,        \* each process: its last open() succeeded and nobody
                    \* else has touched the directory since
    prev_conf,      \* each process: conf as its last successful open() left it
    opens_left,     \* open() calls still to come
    rival,          \* each process: another session was alive when its
                    \* open() was called, and has been alive since
    crashes,        \* process crashes so far
    faults          \* I/O faults so far

fsVars == <<heap_dir, conf, conf_tmp, sentinel, db, lock>>
\* A StorageParameters value on its way through serialize and deserialize:
\* the value, the bytes written for it, what the bytes were read back as,
\* and how far the round trip has got.
VARIABLES sparams, out, parsed, codec_pc

codecVars == <<sparams, out, parsed, codec_pc>>

\* The temporary paths of the process and the builders its threads make.
\* Numbers wider than a machine word of the checker are kept as their
\* sixteen-bit limbs, least significant first.
VARIABLES
    salt_counter,   \* SALT_COUNTER of gen_temp_path (mod.rs:41)
    pid,            \* std::process::id() of this process
    gen_pc,         \* each thread: where its gen_temp_path call stands
    seed,           \* each thread: the counter value its call fetched
    now,            \* each thread: the nanoseconds its call read, << 48
    temp_paths,     \* the paths gen_temp_path returned, in order of return
    gen_calls,      \* calls of gen_temp_path begun by the threads
    bursts,         \* runs of calls made by builders that are not followed
    builder,        \* each thread: the ConfigBuilder it made, or NoBuilder
    explicit_path,  \* each thread: the path its user set last, or NoPath
    got_path        \* each thread: what its last get_path() returned

pathVars ==
    <<salt_counter, pid, gen_pc, seed, now, temp_paths, gen_calls, bursts,
      builder, explicit_path, got_path>>

procVars == <<cfg, config_held, pc, result, wfd, file, handles>>
histVars ==
    <<unlock_calls, prev_ok, prev_conf, opens_left, rival, crashes, faults>>
pipeVars == <<no_zstd, fsVars, procVars, histVars, codecVars, pathVars>>
vars == <<errVars, pipeVars>>

FreeCell == [live |-> FALSE, val |-> Poison]

ErrInit ==
    /\ global_error = Null
    /\ mem = [a \in Addrs |-> FreeCell]
    /\ garbage = {}
    /\ tpc = [t \in Threads |-> "idle"]
    /\ pinned = [t \in Threads |-> FALSE]
    /\ errArg = [t \in Threads |-> Null]
    /\ owned = [t \in Threads |-> Null]
    /\ loaded = [t \in Threads |-> Null]
    /\ ret = [t \in Threads |-> NoRet]

\* ---- the epoch-based reclamation service (crate::ebr) -------------------

\* pin(): the thread enters a critical section.
Pin(t) == [pinned EXCEPT ![t] = TRUE]

\* Every thread pinned right now: the readers a deferred destruction waits for.
PinnedNow == {t \in Threads : pinned[t]}

\* guard.defer_destroy(p): p is destroyed once every thread pinned now has
\* left its critical section.
DeferDestroy(p) == garbage \cup {[ptr |-> p, waiting |-> PinnedNow]}

\* Dropping the guard of t: t no longer blocks any deferred destruction.
Unpin(t) == {[g EXCEPT !.waiting = @ \ {t}] : g \in garbage}

\* The collector runs a deferred destruction nobody waits for any more.
EbrCollect ==
    /\ \E g \in garbage :
        /\ g.waiting = {}
        /\ garbage' = garbage \ {g}
        /\ mem' = [mem EXCEPT ![g.ptr] = FreeCell]
    /\ UNCHANGED <<global_error, tpc, pinned, errArg, owned, loaded, ret, pipeVars>>

\* ---- Config::global_error (config.rs:333-344) ---------------------------

CallGlobalError(t) ==
    /\ tpc[t] = "idle"
    /\ tpc' = [tpc EXCEPT ![t] = "ge_pin"]
    /\ UNCHANGED <<global_error, mem, garbage, pinned, errArg, owned, loaded, ret, pipeVars>>

\* let guard = pin();
GlobalErrorPin(t) ==
    /\ tpc[t] = "ge_pin"
    /\ pinned' = Pin(t)
    /\ tpc' = [tpc EXCEPT ![t] = "ge_load"]
    /\ UNCHANGED <<global_error, mem, garbage, errArg, owned, loaded, ret, pipeVars>>

\* let ge = self.global_error.load(Acquire, &guard);
GlobalErrorLoad(t) ==
    /\ tpc[t] = "ge_load"
    /\ loaded' = [loaded EXCEPT ![t] = global_error]
    /\ tpc' = [tpc EXCEPT ![t] = "ge_deref"]
    /\ UNCHANGED <<global_error, mem, garbage, pinned, errArg, owned, ret, pipeVars>>

\* What *ge.deref() reads: the stored error, or anything at all when the
\* cell has been destroyed (a use after free).
DerefValues(p) ==
    IF mem[p].live THEN {mem[p].val} ELSE Errors \cup {Poison}

\* if ge.is_null() { Ok(()) } else { Err(*ge.deref()) }, then the guard drops.
GlobalErrorDeref(t) ==
    /\ tpc[t] = "ge_deref"
    /\ \E v \in (IF loaded[t] = Null THEN {RetOk} ELSE DerefValues(loaded[t])) :
        ret' = [ret EXCEPT ![t] = v]
    /\ loaded' = [loaded EXCEPT ![t] = Null]
    /\ pinned' = [pinned EXCEPT ![t] = FALSE]
    /\ garbage' = Unpin(t)
    /\ tpc' = [tpc EXCEPT ![t] = "idle"]
    /\ UNCHANGED <<global_error, mem, errArg, owned, pipeVars>>

\* ---- Config::set_global_error (config.rs:346-358) -----------------------

CallSetGlobalError(t, e) ==
    /\ tpc[t] = "idle"
    /\ errArg' = [errArg EXCEPT ![t] = e]
    /\ tpc' = [tpc EXCEPT ![t] = "set_pin"]
    /\ UNCHANGED <<global_error, mem, garbage, pinned, owned, loaded, ret, pipeVars>>

\* let guard = pin();
SetPin(t) ==
    /\ tpc[t] = "set_pin"
    /\ pinned' = Pin(t)
    /\ tpc' = [tpc EXCEPT ![t] = "set_new"]
    /\ UNCHANGED <<global_error, mem, garbage, errArg, owned, loaded, ret, pipeVars>>

\* let error = Owned::new(error_value);  (any free heap cell)
SetNew(t) ==
    /\ tpc[t] = "set_new"
    /\ \E a \in Addrs :
        /\ ~mem[a].live
        /\ \A g \in garbage : g.ptr # a
        /\ mem' = [mem EXCEPT ![a] = [live |-> TRUE, val |-> errArg[t]]]
        /\ owned' = [owned EXCEPT ![t] = a]
    /\ tpc' = [tpc EXCEPT ![t] = "set_cas"]
    /\ UNCHANGED <<global_error, garbage, pinned, errArg, loaded, ret, pipeVars>>

\* A faulty variant: an unconditional store instead of the compare-and-swap.
SetCasAsStore(t) ==
    /\ tpc[t] = "set_cas"
    /\ global_error' = owned[t]
    /\ mem' = mem
    /\ owned' = [owned EXCEPT ![t] = Null]
    /\ tpc' = [tpc EXCEPT ![t] = "set_ret"]
    /\ UNCHANGED <<garbage, pinned, errArg, loaded, ret, pipeVars>>

\* A faulty variant: the swap compares against the thread's own new pointer, so it
\* "succeeds" whenever the slot differs from it.
SetCasWrongExpected(t) ==
    /\ tpc[t] = "set_cas"
    /\ IF global_error # owned[t]
       THEN /\ global_error' = owned[t]
            /\ mem' = mem
       ELSE /\ global_error' = global_error
            /\ mem' = [mem EXCEPT ![owned[t]] = FreeCell]
    /\ owned' = [owned EXCEPT ![t] = Null]
    /\ tpc' = [tpc EXCEPT ![t] = "set_ret"]
    /\ UNCHANGED <<garbage, pinned, errArg, loaded, ret, pipeVars>>

\* self.global_error.compare_and_set(Shared::null(), error, SeqCst, &guard):
\* installs the new pointer only over null; on failure the Owned comes back
\* in the error and is dropped with it (let _ = ...).
SetCas(t) ==
    /\ tpc[t] = "set_cas"
    /\ IF global_error = Null
       THEN /\ global_error' = owned[t]
            /\ mem' = mem
       ELSE /\ global_error' = global_error
            /\ mem' = [mem EXCEPT ![owned[t]] = FreeCell]
    /\ owned' = [owned EXCEPT ![t] = Null]
    /\ tpc' = [tpc EXCEPT ![t] = "set_ret"]
    /\ UNCHANGED <<garbage, pinned, errArg, loaded, ret, pipeVars>>

\* The guard drops at the end of set_global_error.
SetRet(t) ==
    /\ tpc[t] = "set_ret"
    /\ pinned' = [pinned EXCEPT ![t] = FALSE]
    /\ garbage' = Unpin(t)
    /\ errArg' = [errArg EXCEPT ![t] = Null]
    /\ tpc' = [tpc EXCEPT ![t] = "idle"]
    /\ UNCHANGED <<global_error, mem, owned, loaded, ret, pipeVars>>

\* ---- Config::reset_global_error (config.rs:359-368) ---------------------

CallResetGlobalError(t) ==
    /\ tpc[t] = "idle"
    /\ tpc' = [tpc EXCEPT ![t] = "reset_pin"]
    /\ UNCHANGED <<global_error, mem, garbage, pinned, errArg, owned, loaded, ret, pipeVars>>

\* let guard = pin();
ResetPin(t) ==
    /\ tpc[t] = "reset_pin"
    /\ pinned' = Pin(t)
    /\ tpc' = [tpc EXCEPT ![t] = "reset_swap"]
    /\ UNCHANGED <<global_error, mem, garbage, errArg, owned, loaded, ret, pipeVars>>

\* A faulty variant: the register is only read, not emptied.
ResetSwapAsLoad(t) ==
    /\ tpc[t] = "reset_swap"
    /\ loaded' = [loaded EXCEPT ![t] = global_error]
    /\ global_error' = global_error
    /\ tpc' = [tpc EXCEPT ![t] = "reset_defer"]
    /\ UNCHANGED <<mem, garbage, pinned, errArg, owned, ret, pipeVars>>

\* let old = self.global_error.swap(Shared::default(), SeqCst, &guard);
ResetSwap(t) ==
    /\ tpc[t] = "reset_swap"
    /\ loaded' = [loaded EXCEPT ![t] = global_error]
    /\ global_error' = Null
    /\ tpc' = [tpc EXCEPT ![t] = "reset_defer"]
    /\ UNCHANGED <<mem, garbage, pinned, errArg, owned, ret, pipeVars>>

\* A faulty variant: the old value is dropped on the spot instead of being deferred.
ResetDeferAsDrop(t) ==
    /\ tpc[t] = "reset_defer"
    /\ IF loaded[t] # Null
       THEN mem' = [mem EXCEPT ![loaded[t]] = FreeCell]
       ELSE mem' = mem
    /\ garbage' = garbage
    /\ loaded' = [loaded EXCEPT ![t] = Null]
    /\ tpc' = [tpc EXCEPT ![t] = "reset_ret"]
    /\ UNCHANGED <<global_error, pinned, errArg, owned, ret, pipeVars>>

\* A faulty variant: the old value is neither destroyed nor handed to the
\* collector.
ResetDeferForgets(t) ==
    /\ tpc[t] = "reset_defer"
    /\ garbage' = garbage
    /\ mem' = mem
    /\ loaded' = [loaded EXCEPT ![t] = Null]
    /\ tpc' = [tpc EXCEPT ![t] = "reset_ret"]
    /\ UNCHANGED <<global_error, pinned, errArg, owned, ret, pipeVars>>

\* if !old.is_null() { guard.defer_destroy(old) }
ResetDefer(t) ==
    /\ tpc[t] = "reset_defer"
    /\ IF loaded[t] # Null
       THEN garbage' = DeferDestroy(loaded[t])
       ELSE garbage' = garbage
    /\ mem' = mem
    /\ loaded' = [loaded EXCEPT ![t] = Null]
    /\ tpc' = [tpc EXCEPT ![t] = "reset_ret"]
    /\ UNCHANGED <<global_error, pinned, errArg, owned, ret, pipeVars>>

\* The guard drops at the end of reset_global_error.
ResetRet(t) ==
    /\ tpc[t] = "reset_ret"
    /\ pinned' = [pinned EXCEPT ![t] = FALSE]
    /\ garbage' = Unpin(t)
    /\ tpc' = [tpc EXCEPT ![t] = "idle"]
    /\ UNCHANGED <<global_error, mem, errArg, owned, loaded, ret, pipeVars>>

\* ---- specifications of the register -------------------------------------

GlobalErrorSteps(t) ==
    \/ GlobalErrorPin(t)
    \/ GlobalErrorLoad(t)
    \/ GlobalErrorDeref(t)

SetSteps(t) ==
    \/ SetPin(t)
    \/ SetNew(t)
    \/ SetCas(t)
    \/ SetRet(t)

ResetSteps(t) ==
    \/ ResetPin(t)
    \/ ResetSwap(t)
    \/ ResetDefer(t)
    \/ ResetRet(t)

ErrNext ==
    \/ \E t \in Threads : CallGlobalError(t)
    \/ \E t \in Threads : GlobalErrorSteps(t)
    \/ \E t \in Threads : \E e \in Errors : CallSetGlobalError(t, e)
    \/ \E t \in Threads : SetSteps(t)
    \/ \E t \in Threads : CallResetGlobalError(t)
    \/ \E t \in Threads : ResetSteps(t)
    \/ EbrCollect


(***************************************************************************)
(* Part 2.  StorageParameters and the bytes of the persisted record.       *)
(* A byte is a number in 0..255; text is written as its ASCII codes.       *)
(***************************************************************************)

NewLine == <<10>>
KeySegmentSize == <<115, 101, 103, 109, 101, 110, 116, 95, 115, 105, 122, 101>>
KeyUseCompression ==
    <<117, 115, 101, 95, 99, 111, 109, 112, 114, 101, 115, 115, 105, 111, 110>>
KeyVersion == <<118, 101, 114, 115, 105, 111, 110>>
ColonSpace == <<58, 32>>
Dot == <<46>>
TextTrue == <<116, 114, 117, 101>>
TextFalse == <<102, 97, 108, 115, 101>>

\* {} formatting of an unsigned integer: its decimal digits.
RECURSIVE FmtUsize(_)
FmtUsize(n) ==
    IF n < 10 THEN <<48 + n>> ELSE FmtUsize(n \div 10) \o <<48 + (n % 10)>>

\* A faulty variant: a bool is written as a digit.
FmtBoolAsDigit(b) == IF b THEN <<49>> ELSE <<48>>

\* {} formatting of a bool.
FmtBool(b) == IF b THEN TextTrue ELSE TextFalse

\* StorageParameters::serialize (storage_parameters.rs:19-29): three
\* writeln! lines.
Serialize(sp) ==
    KeySegmentSize \o ColonSpace \o FmtUsize(sp.segment_size) \o NewLine
    \o KeyUseCompression \o ColonSpace \o FmtBool(sp.use_compression) \o NewLine
    \o KeyVersion \o ColonSpace \o FmtUsize(sp.version[1]) \o Dot
    \o FmtUsize(sp.version[2]) \o NewLine

\* ---- parsing -------------------------------------------------------------

\* The index of the first occurrence of pat in s at or after position i,
\* or 0 when there is none.
RECURSIVE Find(_, _, _)
Find(s, pat, i) ==
    IF i + Len(pat) - 1 > Len(s) THEN 0
    ELSE IF SubSeq(s, i, i + Len(pat) - 1) = pat THEN i
    ELSE Find(s, pat, i + 1)

\* BufRead::lines: the pieces between newlines, each without its "\n" or
\* "\r\n"; what follows the last newline is a line only when it is not empty.
RECURSIVE SplitLines(_)
SplitLines(s) ==
    IF s = <<>> THEN <<>>
    ELSE LET nl == Find(s, NewLine, 1) IN
         IF nl = 0 THEN <<s>>
         ELSE LET raw == SubSeq(s, 1, nl - 1)
                  line == IF raw # <<>> /\ raw[Len(raw)] = 13
                          THEN SubSeq(raw, 1, Len(raw) - 1) ELSE raw
              IN  <<line>> \o SplitLines(SubSeq(s, nl + 1, Len(s)))

IsCont(b) == b >= 128 /\ b <= 191

\* String::from_utf8 accepts s: well-formed UTF-8 (RFC 3629).
RECURSIVE ValidUtf8(_)
ValidUtf8(s) ==
    IF s = <<>> THEN TRUE
    ELSE LET b == s[1]
             n == Len(s)
         IN
         IF b < 128 THEN ValidUtf8(Tail(s))
         ELSE IF b >= 194 /\ b <= 223
              THEN n >= 2 /\ IsCont(s[2]) /\ ValidUtf8(SubSeq(s, 3, n))
         ELSE IF b >= 224 /\ b <= 239
              THEN /\ n >= 3
                   /\ IsCont(s[2]) /\ IsCont(s[3])
                   /\ (b = 224 => s[2] >= 160)
                   /\ (b = 237 => s[2] <= 159)
                   /\ ValidUtf8(SubSeq(s, 4, n))
         ELSE IF b >= 240 /\ b <= 244
              THEN /\ n >= 4
                   /\ IsCont(s[2]) /\ IsCont(s[3]) /\ IsCont(s[4])
                   /\ (b = 240 => s[2] >= 144)
                   /\ (b = 244 => s[2] <= 143)
                   /\ ValidUtf8(SubSeq(s, 5, n))
         ELSE FALSE

\* A parse that failed.
ParseFail == -1

\* The numbers of the model's files have at most this many digits; usize
\* itself holds 64 bits.
MaxDigits == 9

RECURSIVE DigitsValue(_, _)
DigitsValue(s, acc) ==
    IF s = <<>> THEN acc
    ELSE IF s[1] < 48 \/ s[1] > 57 THEN ParseFail
    ELSE DigitsValue(Tail(s), acc * 10 + (s[1] - 48))

\* str::parse::<usize>: decimal digits after an optional "+"; ParseFail on
\* anything else.
ParseUsize(s) ==
    LET ds == IF s # <<>> /\ s[1] = 43 THEN Tail(s) ELSE s IN
    IF ds = <<>> \/ Len(ds) > MaxDigits THEN ParseFail ELSE DigitsValue(ds, 0)

\* The first two pieces of line.split(": "): <<k>> when the separator does
\* not occur, else <<k, v>>.
SplitKeyValue(line) ==
    LET i == Find(line, ColonSpace, 1) IN
    IF i = 0 THEN <<line>>
    ELSE LET rest == SubSeq(line, i + 2, Len(line))
             j == Find(rest, ColonSpace, 1)
         IN  <<SubSeq(line, 1, i - 1),
               IF j = 0 THEN rest ELSE SubSeq(rest, 1, j - 1)>>

\* A key absent from the map of lines.
NoValue == <<-1>>

EmptyLines == [segment_size |-> NoValue, use_compression |-> NoValue,
               version |-> NoValue]

NoParams == [segment_size |-> 0, use_compression |-> FALSE, version |-> <<0, 0>>]

ParseErr(kind) == [tag |-> kind, params |-> NoParams]

\* The loop over reader.lines() (storage_parameters.rs:36-64): the map of
\* the keys read later, or the error of the first bad line.
RECURSIVE ReadLines(_, _)
ReadLines(ls, map) ==
    IF ls = <<>> THEN [tag |-> "Ok", map |-> map]
    ELSE IF ~ValidUtf8(ls[1]) THEN [tag |-> "Unsupported", map |-> map]
    ELSE LET kv == SplitKeyValue(ls[1]) IN
         IF Len(kv) < 2 THEN [tag |-> "Corruption", map |-> map]
         ELSE ReadLines(Tail(ls),
                 IF kv[1] = KeySegmentSize
                     THEN [map EXCEPT !.segment_size = kv[2]]
                 ELSE IF kv[1] = KeyUseCompression
                     THEN [map EXCEPT !.use_compression = kv[2]]
                 ELSE IF kv[1] = KeyVersion
                     THEN [map EXCEPT !.version = kv[2]]
                 ELSE map)

\* raw.split('.') and the parse of its first two pieces
\* (storage_parameters.rs:96-134): <<major, minor>>, ParseFail for a piece
\* that is missing or does not parse.
ParseVersion(raw) ==
    LET i == Find(raw, Dot, 1) IN
    IF i = 0 THEN <<ParseUsize(raw), ParseFail>>
    ELSE LET rest == SubSeq(raw, i + 1, Len(raw))
             j == Find(rest, Dot, 1)
         IN  <<ParseUsize(SubSeq(raw, 1, i - 1)),
               ParseUsize(IF j = 0 THEN rest ELSE SubSeq(rest, 1, j - 1))>>

\* StorageParameters::deserialize (storage_parameters.rs:31-137).
Deserialize(bytes) ==
    LET r == ReadLines(SplitLines(bytes), EmptyLines) IN
    IF r.tag # "Ok" THEN ParseErr(r.tag)
    ELSE LET m == r.map
             seg == IF m.segment_size = NoValue THEN ParseFail
                    ELSE ParseUsize(m.segment_size)
             comp == m.use_compression
             ver == IF m.version = NoValue THEN <<ParseFail, ParseFail>>
                    ELSE ParseVersion(m.version)
         IN
         IF seg = ParseFail THEN ParseErr("Corruption")
         ELSE IF comp # TextTrue /\ comp # TextFalse THEN ParseErr("Corruption")
         ELSE IF ver[1] = ParseFail \/ ver[2] = ParseFail
              THEN ParseErr("Corruption")
         ELSE [tag |-> "Ok",
               params |-> [segment_size |-> seg,
                           use_compression |-> (comp = TextTrue),
                           version |-> ver]]

\* ---- a round trip through the text form ---------------------------------

\* No StorageParameters value is on its way.
CodecOff ==
    /\ sparams = NoParams
    /\ out = <<>>
    /\ parsed = ParseErr("none")
    /\ codec_pc = "off"

\* ---- wide numbers and paths ----------------------------------------------

\* A u128 is eight limbs of sixteen bits, least significant first.
LimbBase == 65536
U128Limbs == 8

\* The limbs f[1] .. f[n] as a sequence.
RECURSIVE AsLimbs(_, _)
AsLimbs(f, n) == IF n = 0 THEN <<>> ELSE Append(AsLimbs(f, n - 1), f[n])

ZeroU128 == AsLimbs([i \in 1..U128Limbs |-> 0], U128Limbs)

\* No path: get_path() has not been called, or the user has set no path.
NoPath == <<-1>>

\* No ConfigBuilder has been made yet.
NoBuilder == [made |-> FALSE]

\* No call of gen_temp_path has been made and no builder exists.
PathOff ==
    /\ salt_counter = ZeroU128
    /\ pid = ZeroU128
    /\ gen_pc = [t \in Threads |-> "idle"]
    /\ seed = [t \in Threads |-> ZeroU128]
    /\ now = [t \in Threads |-> ZeroU128]
    /\ temp_paths = <<>>
    /\ gen_calls = 0
    /\ bursts = 0
    /\ builder = [t \in Threads |-> NoBuilder]
    /\ explicit_path = [t \in Threads |-> NoPath]
    /\ got_path = [t \in Threads |-> NoPath]

\* let bytes = p.serialize() (storage_parameters.rs:19-29).
SerializeStep ==
    /\ codec_pc = "start"
    /\ out' = Serialize(sparams)
    /\ codec_pc' = "serialized"
    /\ UNCHANGED <<sparams, parsed>>

\* StorageParameters::deserialize(&bytes) (storage_parameters.rs:31-137).
DeserializeStep ==
    /\ codec_pc = "serialized"
    /\ parsed' = Deserialize(out)
    /\ codec_pc' = "done"
    /\ UNCHANGED <<sparams, out>>

\* ---- the checksum (crate::crc32, crate::pagecache::u32_to_arr) -----------

\* The element of a set of one element.
Only(S) == CHOOSE x \in S : TRUE

\* The sum of the bytes s[lo..hi], each multiplied by the number of bytes
\* from it to the end of s when weighted; by halves.
RECURSIVE SumBytes(_, _, _, _)
SumBytes(s, lo, hi, weighted) ==
    IF lo > hi THEN 0
    ELSE IF lo = hi
        THEN IF weighted THEN (Len(s) - lo + 1) * s[lo] ELSE s[lo]
    ELSE Only({SumBytes(s, lo, mid, weighted)
                  + SumBytes(s, mid + 1, hi, weighted) :
               mid \in {(lo + hi) \div 2}})

\* A 32-bit checksum of the bytes, as its four bytes (least significant
\* first): the low half is 1 plus the sum of the bytes, the high half the
\* sum of the running values of the low half, both modulo 65521.
Crc32Arr(bytes) ==
    Only({<<a % 256, a \div 256, b % 256, b \div 256>> :
          a \in {(1 + SumBytes(s, 1, Len(s), FALSE)) % 65521 : s \in {bytes}},
          b \in {(Len(s) + SumBytes(s, 1, Len(s), TRUE)) % 65521 :
                 s \in {bytes}}})

\* ---- the scenario of racing first writers ---------------------------------

\* N threads have each just entered set_global_error on clones of one Config
\* whose register is empty; thread t reports the error value t.
SetRaceInit ==
    /\ global_error = Null
    /\ mem = [a \in Addrs |-> FreeCell]
    /\ garbage = {}
    /\ tpc = [t \in Threads |-> "set_pin"]
    /\ pinned = [t \in Threads |-> FALSE]
    /\ errArg = [t \in Threads |-> t]
    /\ owned = [t \in Threads |-> Null]
    /\ loaded = [t \in Threads |-> Null]
    /\ ret = [t \in Threads |-> NoRet]

\* The racing calls run to their end; afterwards the threads read the register.
SetRaceNext ==
    \/ \E t \in Threads : SetSteps(t)
    \/ \E t \in Threads : CallGlobalError(t)
    \/ \E t \in Threads : GlobalErrorSteps(t)

(***************************************************************************)
(* Claims about the register.                                              *)
(***************************************************************************)

CasDone(t) == tpc[t] \notin {"set_pin", "set_new", "set_cas"}

\* C1: when N threads race to set distinct errors into an empty register,
\* exactly one value is installed as soon as one compare-and-swap has run:
\* it is the value of a thread whose swap has run, every global_error() made
\* after the caller's own set returns exactly that value (never Ok, never
\* another thread's value), and every cell of a losing call is released.
C1_OneWinner ==
    /\ (\E t \in Threads : CasDone(t)) =>
          /\ global_error # Null
          /\ mem[global_error].live
          /\ mem[global_error].val \in {t \in Threads : CasDone(t)}
    /\ \A t \in Threads :
          ret[t] # NoRet =>
              /\ global_error # Null
              /\ ret[t] = mem[global_error].val
    /\ (\A t \in Threads : CasDone(t)) =>
          Cardinality({a \in Addrs : mem[a].live}) = 1

\* C1 witness: every racing set has returned, and a thread whose value lost
\* the race has read the winner's value back.
C1_Witness ==
    /\ \A t \in Threads : tpc[t] = "idle"
    /\ \E t \in Threads : ret[t] # NoRet /\ ret[t] # t

\* C2: an occupied register keeps the same pointer and the same error value
\* on every step, except a reset's swap, which takes it to empty; no step
\* takes it from one error to another.
C2_OccupiedUntilReset ==
    [][global_error # Null =>
          \/ /\ global_error' = global_error
             /\ mem'[global_error] = mem[global_error]
          \/ /\ global_error' = Null
             /\ \E t \in Threads :
                   tpc[t] = "reset_swap" /\ tpc'[t] = "reset_defer"]_vars

\* C2 witness: a set has lost against an installed error (its value is not the
\* installed one) and a reader has returned the installed one.
C2_Witness ==
    /\ global_error # Null
    /\ \E t \in Threads :
          tpc[t] = "set_ret" /\ errArg[t] # mem[global_error].val
    /\ \E u \in Threads : ret[u] = mem[global_error].val

\* C3: a pointer a pinned thread has loaded or swapped out of the register
\* always points to a live error; a destruction that is still deferred has
\* not happened; no read ever returned the content of a destroyed cell.
C3_NoUseAfterFree ==
    /\ \A t \in Threads :
          (tpc[t] \in {"ge_deref", "reset_defer"} /\ loaded[t] # Null)
              => mem[loaded[t]].live
    /\ \A g \in garbage : mem[g.ptr].live
    /\ \A t \in Threads : ret[t] # Poison

\* C3 witness: a reader loaded the installed error, then a reset swapped it
\* out and deferred its destruction, which waits for that reader.
C3_Witness ==
    \E t \in Threads :
        /\ tpc[t] = "ge_deref"
        /\ loaded[t] # Null
        /\ global_error # loaded[t]
        /\ \E g \in garbage : g.ptr = loaded[t] /\ t \in g.waiting

(***************************************************************************)
(* Part 3.  Config::open, the persisted record and the file lock.          *)
(* One data directory; each process owns one Config and runs at most one   *)
(* open() and one session at a time.                                       *)
(***************************************************************************)

\* Bounds of the pipeline model.
NumProcs == 2
MaxHandles == 2
MaxOpens == 3
MaxRacingOpens == 2
MaxCrashes == 1
MaxFaults == 1
MaxPartial == 1

Procs == 1..NumProcs
Handles == 1..MaxHandles
Inodes == 1..(NumProcs + 1)

\* A file that does not exist.
Absent == <<-1>>
\* No inode: the name db does not exist, or the process has no file open.
NoInode == 0
\* Nobody holds the lock.
NoProc == 0

\* ---- configurations -------------------------------------------------------

\* ConfigBuilder::default (builder.rs:49-77), with the crate's version taken
\* as 0.34 and DEFAULT_SEGMENT_SIZE (mod.rs:23).
DefaultOptions ==
    [segment_size |-> 524288, use_compression |-> FALSE,
     compression_factor |-> 5, idgen_persist_interval |-> 1000000,
     version |-> <<0, 34>>, create_new |-> FALSE, temporary |-> FALSE]

\* The configurations the processes of the pipeline are built with: the
\* default and its variations in one option.
PipelineConfigs ==
    { DefaultOptions,
      [DefaultOptions EXCEPT !.use_compression = TRUE],
      [DefaultOptions EXCEPT !.segment_size = 1048576],
      [DefaultOptions EXCEPT !.version = <<0, 33>>],
      [DefaultOptions EXCEPT !.create_new = TRUE],
      [DefaultOptions EXCEPT !.temporary = TRUE],
      [DefaultOptions EXCEPT !.segment_size = 200] }

\* usize::count_ones.
RECURSIVE CountOnes(_)
CountOnes(n) == IF n = 0 THEN 0 ELSE (n % 2) + CountOnes(n \div 2)

\* A faulty variant: the compression level is checked only when compression is on.
ValidateLevelOnlyIfUsed(c, nozstd) ==
    IF CountOnes(c.segment_size) # 1 THEN "Unsupported"
    ELSE IF ~(c.segment_size >= 256) THEN "Unsupported"
    ELSE IF ~(c.segment_size <= 16777216) THEN "Unsupported"
    ELSE IF c.use_compression /\ nozstd THEN "Unsupported"
    ELSE IF c.use_compression /\ ~(c.compression_factor >= 1) THEN "Unsupported"
    ELSE IF c.use_compression /\ ~(c.compression_factor <= 22) THEN "Unsupported"
    ELSE IF ~(c.idgen_persist_interval > 0) THEN "Unsupported"
    ELSE "Ok"

\* Config::validate (config.rs:98-130); 1 << 24 = 16777216.
Validate(c, nozstd) ==
    IF CountOnes(c.segment_size) # 1 THEN "Unsupported"
    ELSE IF ~(c.segment_size >= 256) THEN "Unsupported"
    ELSE IF ~(c.segment_size <= 16777216) THEN "Unsupported"
    ELSE IF c.use_compression /\ nozstd THEN "Unsupported"
    ELSE IF ~(c.compression_factor >= 1) THEN "Unsupported"
    ELSE IF ~(c.compression_factor <= 22) THEN "Unsupported"
    ELSE IF ~(c.idgen_persist_interval > 0) THEN "Unsupported"
    ELSE "Ok"

\* Config::serialize (config.rs:241-249): the persisted subset, as bytes.
StorageParameters(c) ==
    [segment_size |-> c.segment_size, use_compression |-> c.use_compression,
     version |-> c.version]

ConfigBytes(c) == Serialize(StorageParameters(c))

\* What write_config writes: the bytes, then crc_arr.
Record(c) == ConfigBytes(c) \o Crc32Arr(ConfigBytes(c))

\* &buf[..len - 4] of read_config (config.rs:299): the bytes of a file
\* before its last four.
Payload(f) == SubSeq(f, 1, Len(f) - 4)

\* The checksum comparison of read_config (config.rs:301-314) on a file of
\* more than 4 bytes: crc_expected, the last 4 bytes, against crc_actual.
CrcMatches(f) ==
    SubSeq(f, Len(f) - 3, Len(f)) = Crc32Arr(SubSeq(f, 1, Len(f) - 4))

\* A faulty variant: a checksum that does not match is a hard failure.
ReadConfigRejectsBadCrc(f) ==
    IF f = Absent THEN [tag |-> "None", params |-> NoParams, crc_ok |-> TRUE]
    ELSE IF Len(f) <= 8
        THEN [tag |-> "None", params |-> NoParams, crc_ok |-> TRUE]
    ELSE IF ~CrcMatches(f)
        THEN [tag |-> "Corruption", params |-> NoParams, crc_ok |-> FALSE]
    ELSE Only({[tag |-> d.tag, params |-> d.params, crc_ok |-> TRUE] :
               d \in {Deserialize(Payload(f))}})

\* Config::read_config (config.rs:276-317) on the bytes of conf: tag "None"
\* for no prior configuration, "Ok" with the parameters, or the parse error.
\* A checksum that does not match only logs a warning (crc_ok is FALSE).
ReadConfig(f) ==
    IF f = Absent THEN [tag |-> "None", params |-> NoParams, crc_ok |-> TRUE]
    ELSE IF Len(f) <= 8
        THEN [tag |-> "None", params |-> NoParams, crc_ok |-> TRUE]
    ELSE Only({[tag |-> d.tag, params |-> d.params, crc_ok |-> CrcMatches(f)] :
               d \in {Deserialize(Payload(f))}})

\* A faulty variant: the segment size is not compared.
ReconcileIgnoresSegmentSize(c, old) ==
    IF c.use_compression /\ ~old.use_compression THEN "Unsupported"
    ELSE IF ~c.use_compression /\ old.use_compression THEN "Unsupported"
    ELSE IF c.version # old.version THEN "Unsupported"
    ELSE "Ok"

\* A faulty variant: versions with the same major number are compatible.
ReconcileMajorOnly(c, old) ==
    IF c.use_compression /\ ~old.use_compression THEN "Unsupported"
    ELSE IF ~c.use_compression /\ old.use_compression THEN "Unsupported"
    ELSE IF c.segment_size # old.segment_size THEN "Unsupported"
    ELSE IF c.version[1] # old.version[1] THEN "Unsupported"
    ELSE "Ok"

\* The comparison of verify_config (config.rs:196-234) of the requested
\* configuration c with the stored parameters old.
Reconcile(c, old) ==
    IF c.use_compression /\ ~old.use_compression THEN "Unsupported"
    ELSE IF ~c.use_compression /\ old.use_compression THEN "Unsupported"
    ELSE IF c.segment_size # old.segment_size THEN "Unsupported"
    ELSE IF c.version # old.version THEN "Unsupported"
    ELSE "Ok"

\* ---- files ----------------------------------------------------------------

Max(a, b) == IF a >= b THEN a ELSE b
Min(a, b) == IF a <= b THEN a ELSE b

\* A write of data at offset off of a file that is not truncated first: the
\* bytes beyond the written range stay.
Overwrite(old, off, data) ==
    [i \in 1..Max(Len(old), off + Len(data)) |->
        IF i > off /\ i <= off + Len(data) THEN data[i - off]
        ELSE IF i <= Len(old) THEN old[i]
        ELSE 0]

\* conf.tmp and conf after process p wrote data at offset off through its
\* handle: the handle follows its inode through renames.
TmpAfterWrite(p, off, data) ==
    IF wfd[p] = "tmp" THEN Overwrite(conf_tmp, off, data) ELSE conf_tmp

ConfAfterWrite(p, off, data) ==
    IF wfd[p] = "conf" THEN Overwrite(conf, off, data) ELSE conf

\* What a write_all that fails or dies midway may have written.
Prefixes(data) == {SubSeq(data, 1, k) : k \in 0..Min(MaxPartial, Len(data) - 1)}

\* An inode number no name and no open file uses.
FreshInode ==
    CHOOSE i \in Inodes :
        /\ i # db /\ \A q \in Procs : file[q] # i
        /\ \A j \in Inodes : (j # db /\ \A q \in Procs : file[q] # j) => i <= j

\* The lock table after process p closed or unlocked its data file.
Released(p) ==
    [i \in Inodes |-> IF i = file[p] /\ lock[i] = p THEN NoProc ELSE lock[i]]

\* ---- the history the claims refer to --------------------------------------

\* Process p touched the directory: the other processes' last successful
\* open is no longer the last thing that happened there.
Touched(p) == [r \in Procs |-> r = p /\ prev_ok[r]]
Failed(p) == [prev_ok EXCEPT ![p] = FALSE]
Forget(ok) == [r \in Procs |-> IF ok[r] THEN prev_conf[r] ELSE Absent]

NoHandles(p) == \A h \in Handles : handles[p][h] = "none"
StrongCount(p) == Cardinality({h \in Handles : handles[p][h] # "none"})
SessionAlive(p) == \E h \in Handles : handles[p][h] = "live"

\* Another process has a live session.
HasRival(p) == \E q \in Procs \ {p} : SessionAlive(q)

\* The rivals that are left once the handles have changed.
StillRivalled ==
    [q \in Procs |->
        rival[q] /\ \E r \in Procs \ {q} : \E h \in Handles :
                        handles'[r][h] = "live"]

PipeStart ==
    /\ CodecOff
    /\ PathOff
    /\ no_zstd = FALSE
    /\ heap_dir = FALSE
    /\ conf = Absent
    /\ conf_tmp = Absent
    /\ sentinel = FALSE
    /\ db = NoInode
    /\ lock = [i \in Inodes |-> NoProc]
    /\ config_held = [p \in Procs |-> TRUE]
    /\ pc = [p \in Procs |-> "idle"]
    /\ result = [p \in Procs |-> "none"]
    /\ wfd = [p \in Procs |-> "none"]
    /\ file = [p \in Procs |-> NoInode]
    /\ handles = [p \in Procs |-> [h \in Handles |-> "none"]]
    /\ unlock_calls = [p \in Procs |-> 0]
    /\ prev_ok = [p \in Procs |-> FALSE]
    /\ prev_conf = [p \in Procs |-> Absent]
    /\ rival = [p \in Procs |-> FALSE]
    /\ crashes = 0
    /\ faults = 0

\* ---- Config::open (config.rs:75-95) and open_file (config.rs:132-159) -----

NobodyOk == [r \in Procs |-> FALSE]

\* A faulty variant: the heap directory is made before the options are validated.
OpenCreatesDirFirst(p) ==
    /\ pc[p] = "idle"
    /\ config_held[p]
    /\ NoHandles(p)
    /\ opens_left > 0
    /\ opens_left' = opens_left - 1
    /\ rival' = [rival EXCEPT ![p] = HasRival(p)]
    /\ heap_dir' = TRUE
    /\ IF Validate(cfg[p], no_zstd) # "Ok"
       THEN /\ pc' = pc
            /\ result' = [result EXCEPT ![p] = "Unsupported"]
       ELSE /\ pc' = [pc EXCEPT ![p] = "verify"]
            /\ result' = [result EXCEPT ![p] = "none"]
    /\ prev_ok' = Failed(p)
    /\ prev_conf' = Forget(prev_ok')
    /\ UNCHANGED <<errVars, codecVars, pathVars, no_zstd, conf, conf_tmp, sentinel, db, lock, cfg,
          config_held, wfd, file, handles, unlock_calls, crashes, faults>>

\* Config::open (config.rs:75-95) is called: self.validate()?, then the clone
\* of the Config enters open_file.
Open(p) ==
    /\ pc[p] = "idle"
    /\ config_held[p]
    /\ NoHandles(p)
    /\ opens_left > 0
    /\ \/ /\ Validate(cfg[p], no_zstd) # "Ok"
          /\ result' = [result EXCEPT ![p] = "Unsupported"]
          /\ prev_ok' = Failed(p)
          /\ prev_conf' = Forget(prev_ok')
          /\ opens_left' = opens_left - 1
          /\ rival' = [rival EXCEPT ![p] = HasRival(p)]
          /\ UNCHANGED <<errVars, codecVars, pathVars, no_zstd, heap_dir, conf, conf_tmp,
                 sentinel, db, lock, cfg, config_held, pc, wfd, file,
                 handles, unlock_calls, crashes, faults>>
       \/ /\ Validate(cfg[p], no_zstd) = "Ok"
          /\ pc' = [pc EXCEPT ![p] = "heap_dir"]
          /\ result' = [result EXCEPT ![p] = "none"]
          /\ opens_left' = opens_left - 1
          /\ rival' = [rival EXCEPT ![p] = HasRival(p)]
          /\ UNCHANGED <<errVars, codecVars, pathVars, no_zstd, heap_dir, conf, conf_tmp,
                 sentinel, db, lock, cfg, config_held, wfd, file, handles,
                 unlock_calls, prev_ok, prev_conf, crashes, faults>>

\* open_file (config.rs:133-137): if !heap_dir.exists() { fs::create_dir_all }.
CreateHeapDir(p) ==
    /\ pc[p] = "heap_dir"
    /\ \/ /\ heap_dir
          /\ pc' = [pc EXCEPT ![p] = "verify"]
          /\ UNCHANGED <<errVars, codecVars, pathVars, no_zstd, heap_dir, conf, conf_tmp,
                 sentinel, db, lock, cfg, config_held, result, wfd, file,
                 handles, unlock_calls, prev_ok, prev_conf, opens_left,
                 rival, crashes, faults>>
       \/ /\ ~heap_dir
          /\ heap_dir' = TRUE
          /\ pc' = [pc EXCEPT ![p] = "verify"]
          /\ prev_ok' = Touched(p)
          /\ prev_conf' = Forget(prev_ok')
          /\ UNCHANGED <<errVars, codecVars, pathVars, no_zstd, conf, conf_tmp, sentinel, db,
                 lock, cfg, config_held, result, wfd, file, handles,
                 unlock_calls, opens_left, rival, crashes, faults>>
       \/ /\ ~heap_dir
          /\ faults < MaxFaults
          /\ pc' = [pc EXCEPT ![p] = "idle"]
          /\ result' = [result EXCEPT ![p] = "IoFault"]
          /\ prev_ok' = Failed(p)
          /\ prev_conf' = Forget(prev_ok')
          /\ faults' = faults + 1
          /\ UNCHANGED <<errVars, codecVars, pathVars, no_zstd, heap_dir, conf, conf_tmp,
                 sentinel, db, lock, cfg, config_held, wfd, file, handles,
                 unlock_calls, opens_left, rival, crashes>>

\* A faulty variant: only turning compression off is rejected.
VerifyOutcomeOneWay(c, f) ==
    LET rc == ReadConfig(f) IN
    IF rc.tag = "None" THEN "Write"
    ELSE IF rc.tag # "Ok" THEN rc.tag
    ELSE IF ~c.use_compression /\ rc.params.use_compression THEN "Unsupported"
    ELSE IF c.segment_size # rc.params.segment_size THEN "Unsupported"
    ELSE IF c.version # rc.params.version THEN "Unsupported"
    ELSE "Ok"

\* What verify_config (config.rs:194-239) decides for configuration c on
\* the bytes f of conf: "Write" (no prior configuration), "Ok", or the error.
VerifyOutcome(c, f) ==
    LET rc == ReadConfig(f) IN
    IF rc.tag = "None" THEN "Write"
    ELSE IF rc.tag # "Ok" THEN rc.tag
    ELSE Reconcile(c, rc.params)

\* A faulty variant: the error of verify_config is dropped and open_file
\* goes on.
VerifyConfigGoesOn(p) ==
    /\ pc[p] = "verify"
    /\ \/ /\ VerifyOutcome(cfg[p], conf) = "Write"
          /\ pc' = [pc EXCEPT ![p] = "wc_open"]
          /\ UNCHANGED <<errVars, codecVars, pathVars, no_zstd, heap_dir, conf, conf_tmp,
                 sentinel, db, lock, cfg, config_held, result, wfd, file,
                 handles, unlock_calls, prev_ok, prev_conf, opens_left,
                 rival, crashes, faults>>
       \/ /\ VerifyOutcome(cfg[p], conf) = "Ok"
          /\ pc' = [pc EXCEPT ![p] = "sentinel"]
          /\ UNCHANGED <<errVars, codecVars, pathVars, no_zstd, heap_dir, conf, conf_tmp,
                 sentinel, db, lock, cfg, config_held, result, wfd, file,
                 handles, unlock_calls, prev_ok, prev_conf, opens_left,
                 rival, crashes, faults>>
       \/ /\ VerifyOutcome(cfg[p], conf) \in {"Unsupported", "Corruption"}
          /\ pc' = [pc EXCEPT ![p] = "sentinel"]
          /\ UNCHANGED <<errVars, codecVars, pathVars, no_zstd, heap_dir, conf, conf_tmp,
                 sentinel, db, lock, cfg, config_held, result, wfd, file,
                 handles, unlock_calls, prev_ok, prev_conf, opens_left,
                 rival, crashes, faults>>
       \/ /\ conf # Absent
          /\ faults < MaxFaults
          /\ pc' = [pc EXCEPT ![p] = "idle"]
          /\ result' = [result EXCEPT ![p] = "IoFault"]
          /\ prev_ok' = Failed(p)
          /\ prev_conf' = Forget(prev_ok')
          /\ faults' = faults + 1
          /\ UNCHANGED <<errVars, codecVars, pathVars, no_zstd, heap_dir, conf, conf_tmp,
                 sentinel, db, lock, cfg, config_held, wfd, file, handles,
                 unlock_calls, opens_left, rival, crashes>>

\* self.verify_config()? (config.rs:139): read_config and the comparison;
\* an error of the read itself is an I/O fault.
VerifyConfig(p) ==
    /\ pc[p] = "verify"
    /\ \/ /\ VerifyOutcome(cfg[p], conf) = "Write"
          /\ pc' = [pc EXCEPT ![p] = "wc_open"]
          /\ UNCHANGED <<errVars, codecVars, pathVars, no_zstd, heap_dir, conf, conf_tmp,
                 sentinel, db, lock, cfg, config_held, result, wfd, file,
                 handles, unlock_calls, prev_ok, prev_conf, opens_left,
                 rival, crashes, faults>>
       \/ /\ VerifyOutcome(cfg[p], conf) = "Ok"
          /\ pc' = [pc EXCEPT ![p] = "sentinel"]
          /\ UNCHANGED <<errVars, codecVars, pathVars, no_zstd, heap_dir, conf, conf_tmp,
                 sentinel, db, lock, cfg, config_held, result, wfd, file,
                 handles, unlock_calls, prev_ok, prev_conf, opens_left,
                 rival, crashes, faults>>
       \/ /\ VerifyOutcome(cfg[p], conf) \in {"Unsupported", "Corruption"}
          /\ pc' = [pc EXCEPT ![p] = "idle"]
          /\ result' = [result EXCEPT ![p] = VerifyOutcome(cfg[p], conf)]
          /\ prev_ok' = Failed(p)
          /\ prev_conf' = Forget(prev_ok')
          /\ UNCHANGED <<errVars, codecVars, pathVars, no_zstd, heap_dir, conf, conf_tmp,
                 sentinel, db, lock, cfg, config_held, wfd, file, handles,
                 unlock_calls, opens_left, rival, crashes, faults>>
       \/ /\ conf # Absent
          /\ faults < MaxFaults
          /\ pc' = [pc EXCEPT ![p] = "idle"]
          /\ result' = [result EXCEPT ![p] = "IoFault"]
          /\ prev_ok' = Failed(p)
          /\ prev_conf' = Forget(prev_ok')
          /\ faults' = faults + 1
          /\ UNCHANGED <<errVars, codecVars, pathVars, no_zstd, heap_dir, conf, conf_tmp,
                 sentinel, db, lock, cfg, config_held, wfd, file, handles,
                 unlock_calls, opens_left, rival, crashes>>

\* write_config (config.rs:259-260): OpenOptions write(true).create(true) on
\* conf.tmp; an existing conf.tmp is opened as it is.
WcOpen(p) ==
    /\ pc[p] = "wc_open"
    /\ \/ /\ heap_dir
          /\ conf_tmp' = IF conf_tmp = Absent THEN <<>> ELSE conf_tmp
          /\ pc' = [pc EXCEPT ![p] = "wc_bytes"]
          /\ wfd' = [wfd EXCEPT ![p] = "tmp"]
          /\ prev_ok' = Touched(p)
          /\ prev_conf' = Forget(prev_ok')
          /\ UNCHANGED <<errVars, codecVars, pathVars, no_zstd, heap_dir, conf, sentinel, db,
                 lock, cfg, config_held, result, file, handles, unlock_calls,
                 opens_left, rival, crashes, faults>>
       \/ /\ ~heap_dir
          /\ pc' = [pc EXCEPT ![p] = "idle"]
          /\ result' = [result EXCEPT ![p] = "IoNotFound"]
          /\ prev_ok' = Failed(p)
          /\ prev_conf' = Forget(prev_ok')
          /\ UNCHANGED <<errVars, codecVars, pathVars, no_zstd, heap_dir, conf, conf_tmp,
                 sentinel, db, lock, cfg, config_held, wfd, file, handles,
                 unlock_calls, opens_left, rival, crashes, faults>>
       \/ /\ heap_dir
          /\ faults < MaxFaults
          /\ pc' = [pc EXCEPT ![p] = "idle"]
          /\ result' = [result EXCEPT ![p] = "IoFault"]
          /\ prev_ok' = Failed(p)
          /\ prev_conf' = Forget(prev_ok')
          /\ faults' = faults + 1
          /\ UNCHANGED <<errVars, codecVars, pathVars, no_zstd, heap_dir, conf, conf_tmp,
                 sentinel, db, lock, cfg, config_held, wfd, file, handles,
                 unlock_calls, opens_left, rival, crashes>>

\* What a write_all that fails, or a process that dies at its position,
\* may have written of the bytes or of the checksum.
PartialWrites(p) ==
    IF pc[p] = "wc_bytes"
        THEN {[off |-> 0, data |-> pre] : pre \in Prefixes(ConfigBytes(cfg[p]))}
    ELSE IF pc[p] = "wc_crc"
        THEN {[off |-> Len(ConfigBytes(cfg[p])), data |-> pre] :
                  pre \in Prefixes(Crc32Arr(ConfigBytes(cfg[p])))}
    ELSE {[off |-> 0, data |-> <<>>]}

\* f.write_all(&*bytes)? (config.rs:262-263), from offset 0.
WcBytes(p) ==
    /\ pc[p] = "wc_bytes"
    /\ \/ /\ conf' = ConfAfterWrite(p, 0, ConfigBytes(cfg[p]))
          /\ conf_tmp' = TmpAfterWrite(p, 0, ConfigBytes(cfg[p]))
          /\ pc' = [pc EXCEPT ![p] = "wc_crc"]
          /\ prev_ok' = Touched(p)
          /\ prev_conf' = Forget(prev_ok')
          /\ UNCHANGED <<errVars, codecVars, pathVars, no_zstd, heap_dir, sentinel, db, lock, cfg,
                 config_held, result, wfd, file, handles, unlock_calls,
                 opens_left, rival, crashes, faults>>
       \/ /\ faults < MaxFaults
          /\ \E w \in PartialWrites(p) :
                 /\ conf_tmp' = TmpAfterWrite(p, w.off, w.data)
                 /\ conf' = ConfAfterWrite(p, w.off, w.data)
          /\ pc' = [pc EXCEPT ![p] = "idle"]
          /\ result' = [result EXCEPT ![p] = "IoFault"]
          /\ wfd' = [wfd EXCEPT ![p] = "none"]
          /\ prev_ok' = NobodyOk
          /\ prev_conf' = Forget(prev_ok')
          /\ faults' = faults + 1
          /\ UNCHANGED <<errVars, codecVars, pathVars, no_zstd, heap_dir, sentinel, db, lock, cfg,
                 config_held, file, handles, unlock_calls, opens_left, rival,
                 crashes>>

\* f.write_all(&crc_arr)? (config.rs:264-265), right after the bytes.
WcCrc(p) ==
    /\ pc[p] = "wc_crc"
    /\ \/ /\ conf' = ConfAfterWrite(p, Len(ConfigBytes(cfg[p])), Crc32Arr(ConfigBytes(cfg[p])))
          /\ conf_tmp' = TmpAfterWrite(p, Len(ConfigBytes(cfg[p])), Crc32Arr(ConfigBytes(cfg[p])))
          /\ pc' = [pc EXCEPT ![p] = "wc_fsync"]
          /\ prev_ok' = Touched(p)
          /\ prev_conf' = Forget(prev_ok')
          /\ UNCHANGED <<errVars, codecVars, pathVars, no_zstd, heap_dir, sentinel, db, lock, cfg,
                 config_held, result, wfd, file, handles, unlock_calls,
                 opens_left, rival, crashes, faults>>
       \/ /\ faults < MaxFaults
          /\ \E w \in PartialWrites(p) :
                 /\ conf_tmp' = TmpAfterWrite(p, w.off, w.data)
                 /\ conf' = ConfAfterWrite(p, w.off, w.data)
          /\ pc' = [pc EXCEPT ![p] = "idle"]
          /\ result' = [result EXCEPT ![p] = "IoFault"]
          /\ wfd' = [wfd EXCEPT ![p] = "none"]
          /\ prev_ok' = NobodyOk
          /\ prev_conf' = Forget(prev_ok')
          /\ faults' = faults + 1
          /\ UNCHANGED <<errVars, codecVars, pathVars, no_zstd, heap_dir, sentinel, db, lock, cfg,
                 config_held, file, handles, unlock_calls, opens_left, rival,
                 crashes>>

\* f.sync_all()? (config.rs:266-267).
WcFsync(p) ==
    /\ pc[p] = "wc_fsync"
    /\ \/ /\ pc' = [pc EXCEPT ![p] = "wc_rename"]
          /\ UNCHANGED <<errVars, codecVars, pathVars, no_zstd, heap_dir, conf, conf_tmp,
                 sentinel, db, lock, cfg, config_held, result, wfd, file,
                 handles, unlock_calls, prev_ok, prev_conf, opens_left,
                 rival, crashes, faults>>
       \/ /\ faults < MaxFaults
          /\ pc' = [pc EXCEPT ![p] = "idle"]
          /\ result' = [result EXCEPT ![p] = "IoFault"]
          /\ wfd' = [wfd EXCEPT ![p] = "none"]
          /\ prev_ok' = Failed(p)
          /\ prev_conf' = Forget(prev_ok')
          /\ faults' = faults + 1
          /\ UNCHANGED <<errVars, codecVars, pathVars, no_zstd, heap_dir, conf, conf_tmp,
                 sentinel, db, lock, cfg, config_held, file, handles,
                 unlock_calls, opens_left, rival, crashes>>

\* fs::rename(temp_path, final_path)? (config.rs:268-269): conf now names
\* the inode of conf.tmp, and every handle on that inode follows it.
WcRename(p) ==
    /\ pc[p] = "wc_rename"
    /\ \/ /\ conf_tmp # Absent
          /\ conf' = conf_tmp
          /\ conf_tmp' = Absent
          /\ pc' = [pc EXCEPT ![p] = "wc_dirsync"]
          /\ wfd' = [q \in Procs |-> IF wfd[q] = "tmp" THEN "conf"
                             ELSE IF wfd[q] = "conf" THEN "gone" ELSE wfd[q]]
          /\ prev_ok' = Touched(p)
          /\ prev_conf' = Forget(prev_ok')
          /\ UNCHANGED <<errVars, codecVars, pathVars, no_zstd, heap_dir, sentinel, db, lock, cfg,
                 config_held, result, file, handles, unlock_calls,
                 opens_left, rival, crashes, faults>>
       \/ /\ conf_tmp = Absent
          /\ pc' = [pc EXCEPT ![p] = "idle"]
          /\ result' = [result EXCEPT ![p] = "IoNotFound"]
          /\ wfd' = [wfd EXCEPT ![p] = "none"]
          /\ prev_ok' = Failed(p)
          /\ prev_conf' = Forget(prev_ok')
          /\ UNCHANGED <<errVars, codecVars, pathVars, no_zstd, heap_dir, conf, conf_tmp,
                 sentinel, db, lock, cfg, config_held, file, handles,
                 unlock_calls, opens_left, rival, crashes, faults>>
       \/ /\ conf_tmp # Absent
          /\ faults < MaxFaults
          /\ pc' = [pc EXCEPT ![p] = "idle"]
          /\ result' = [result EXCEPT ![p] = "IoFault"]
          /\ wfd' = [wfd EXCEPT ![p] = "none"]
          /\ prev_ok' = Failed(p)
          /\ prev_conf' = Forget(prev_ok')
          /\ faults' = faults + 1
          /\ UNCHANGED <<errVars, codecVars, pathVars, no_zstd, heap_dir, conf, conf_tmp,
                 sentinel, db, lock, cfg, config_held, file, handles,
                 unlock_calls, opens_left, rival, crashes>>

\* maybe_fsync_directory(self.get_path())? and the last fail point
\* (config.rs:270-273); f is closed as write_config returns.
WcDirFsync(p) ==
    /\ pc[p] = "wc_dirsync"
    /\ \/ /\ pc' = [pc EXCEPT ![p] = "sentinel"]
          /\ wfd' = [wfd EXCEPT ![p] = "none"]
          /\ UNCHANGED <<errVars, codecVars, pathVars, no_zstd, heap_dir, conf, conf_tmp,
                 sentinel, db, lock, cfg, config_held, result, file, handles,
                 unlock_calls, prev_ok, prev_conf, opens_left, rival,
                 crashes, faults>>
       \/ /\ faults < MaxFaults
          /\ pc' = [pc EXCEPT ![p] = "idle"]
          /\ result' = [result EXCEPT ![p] = "IoFault"]
          /\ wfd' = [wfd EXCEPT ![p] = "none"]
          /\ prev_ok' = Failed(p)
          /\ prev_conf' = Forget(prev_ok')
          /\ faults' = faults + 1
          /\ UNCHANGED <<errVars, codecVars, pathVars, no_zstd, heap_dir, conf, conf_tmp,
                 sentinel, db, lock, cfg, config_held, file, handles,
                 unlock_calls, opens_left, rival, crashes>>

\* let _ = File::create(.../DO_NOT_USE_THIS_DIRECTORY_FOR_ANYTHING)
\* (config.rs:152-154); its result is ignored.
Sentinel(p) ==
    /\ pc[p] = "sentinel"
    /\ \/ /\ heap_dir
          /\ sentinel' = TRUE
          /\ pc' = [pc EXCEPT ![p] = "db_open"]
          /\ prev_ok' = Touched(p)
          /\ prev_conf' = Forget(prev_ok')
          /\ UNCHANGED <<errVars, codecVars, pathVars, no_zstd, heap_dir, conf, conf_tmp, db,
                 lock, cfg, config_held, result, wfd, file, handles,
                 unlock_calls, opens_left, rival, crashes, faults>>
       \/ /\ ~heap_dir
          /\ pc' = [pc EXCEPT ![p] = "db_open"]
          /\ UNCHANGED <<errVars, codecVars, pathVars, no_zstd, heap_dir, conf, conf_tmp,
                 sentinel, db, lock, cfg, config_held, result, wfd, file,
                 handles, unlock_calls, prev_ok, prev_conf, opens_left,
                 rival, crashes, faults>>

\* options.open(&self.db_path())? (config.rs:142-156): create, read, write,
\* and create_new when the option is set.
DbOpen(p) ==
    /\ pc[p] = "db_open"
    /\ \/ /\ heap_dir
          /\ db = NoInode
          /\ db' = FreshInode
          /\ pc' = [pc EXCEPT ![p] = "try_lock"]
          /\ file' = [file EXCEPT ![p] = FreshInode]
          /\ prev_ok' = Touched(p)
          /\ prev_conf' = Forget(prev_ok')
          /\ UNCHANGED <<errVars, codecVars, pathVars, no_zstd, heap_dir, conf, conf_tmp,
                 sentinel, lock, cfg, config_held, result, wfd, handles,
                 unlock_calls, opens_left, rival, crashes, faults>>
       \/ /\ heap_dir
          /\ db # NoInode
          /\ ~cfg[p].create_new
          /\ pc' = [pc EXCEPT ![p] = "try_lock"]
          /\ file' = [file EXCEPT ![p] = db]
          /\ UNCHANGED <<errVars, codecVars, pathVars, no_zstd, heap_dir, conf, conf_tmp,
                 sentinel, db, lock, cfg, config_held, result, wfd, handles,
                 unlock_calls, prev_ok, prev_conf, opens_left, rival,
                 crashes, faults>>
       \/ /\ heap_dir
          /\ db # NoInode
          /\ cfg[p].create_new
          /\ pc' = [pc EXCEPT ![p] = "idle"]
          /\ result' = [result EXCEPT ![p] = "IoExists"]
          /\ prev_ok' = Failed(p)
          /\ prev_conf' = Forget(prev_ok')
          /\ UNCHANGED <<errVars, codecVars, pathVars, no_zstd, heap_dir, conf, conf_tmp,
                 sentinel, db, lock, cfg, config_held, wfd, file, handles,
                 unlock_calls, opens_left, rival, crashes, faults>>
       \/ /\ ~heap_dir
          /\ pc' = [pc EXCEPT ![p] = "idle"]
          /\ result' = [result EXCEPT ![p] = "IoNotFound"]
          /\ prev_ok' = Failed(p)
          /\ prev_conf' = Forget(prev_ok')
          /\ UNCHANGED <<errVars, codecVars, pathVars, no_zstd, heap_dir, conf, conf_tmp,
                 sentinel, db, lock, cfg, config_held, wfd, file, handles,
                 unlock_calls, opens_left, rival, crashes, faults>>
       \/ /\ heap_dir
          /\ faults < MaxFaults
          /\ pc' = [pc EXCEPT ![p] = "idle"]
          /\ result' = [result EXCEPT ![p] = "IoFault"]
          /\ prev_ok' = Failed(p)
          /\ prev_conf' = Forget(prev_ok')
          /\ faults' = faults + 1
          /\ UNCHANGED <<errVars, codecVars, pathVars, no_zstd, heap_dir, conf, conf_tmp,
                 sentinel, db, lock, cfg, config_held, wfd, file, handles,
                 unlock_calls, opens_left, rival, crashes>>

\* A faulty variant: the result of try_lock_exclusive is not looked at.
TryLockIgnoresResult(p) ==
    /\ pc[p] = "try_lock"
    /\ lock' = [lock EXCEPT ![file[p]] = IF @ = NoProc THEN p ELSE @]
    /\ pc' = [pc EXCEPT ![p] = "dir_fsync"]
    /\ prev_ok' = Touched(p)
    /\ prev_conf' = Forget(prev_ok')
    /\ UNCHANGED <<errVars, codecVars, pathVars, no_zstd, heap_dir, conf, conf_tmp, sentinel, db, cfg,
          config_held, result, wfd, file, handles, unlock_calls,
          opens_left, rival, crashes, faults>>

\* self.try_lock(file)? (config.rs:161-192), fail-fast build:
\* file.try_lock_exclusive(), an error closes the file.
TryLock(p) ==
    /\ pc[p] = "try_lock"
    /\ \/ /\ lock[file[p]] = NoProc
          /\ lock' = [lock EXCEPT ![file[p]] = p]
          /\ pc' = [pc EXCEPT ![p] = "dir_fsync"]
          /\ prev_ok' = Touched(p)
          /\ prev_conf' = Forget(prev_ok')
          /\ UNCHANGED <<errVars, codecVars, pathVars, no_zstd, heap_dir, conf, conf_tmp,
                 sentinel, db, cfg, config_held, result, wfd, file, handles,
                 unlock_calls, opens_left, rival, crashes, faults>>
       \/ /\ lock[file[p]] # NoProc
          /\ pc' = [pc EXCEPT ![p] = "idle"]
          /\ result' = [result EXCEPT ![p] = "IoLock"]
          /\ file' = [file EXCEPT ![p] = NoInode]
          /\ prev_ok' = Failed(p)
          /\ prev_conf' = Forget(prev_ok')
          /\ UNCHANGED <<errVars, codecVars, pathVars, no_zstd, heap_dir, conf, conf_tmp,
                 sentinel, db, lock, cfg, config_held, wfd, handles,
                 unlock_calls, opens_left, rival, crashes, faults>>

\* maybe_fsync_directory(self.get_path())? (config.rs:157); on an error the
\* file is dropped, which closes it and frees its lock.
DirFsync(p) ==
    /\ pc[p] = "dir_fsync"
    /\ \/ /\ pc' = [pc EXCEPT ![p] = "heap_start"]
          /\ UNCHANGED <<errVars, codecVars, pathVars, no_zstd, heap_dir, conf, conf_tmp,
                 sentinel, db, lock, cfg, config_held, result, wfd, file,
                 handles, unlock_calls, prev_ok, prev_conf, opens_left,
                 rival, crashes, faults>>
       \/ /\ faults < MaxFaults
          /\ lock' = Released(p)
          /\ pc' = [pc EXCEPT ![p] = "idle"]
          /\ result' = [result EXCEPT ![p] = "IoFault"]
          /\ file' = [file EXCEPT ![p] = NoInode]
          /\ prev_ok' = NobodyOk
          /\ prev_conf' = Forget(prev_ok')
          /\ faults' = faults + 1
          /\ UNCHANGED <<errVars, codecVars, pathVars, no_zstd, heap_dir, conf, conf_tmp,
                 sentinel, db, cfg, config_held, wfd, handles, unlock_calls,
                 opens_left, rival, crashes>>

\* Heap::start(&heap_path)? and maybe_fsync_directory(heap_path)?
\* (config.rs:83-85).
HeapStart(p) ==
    /\ pc[p] = "heap_start"
    /\ \/ /\ pc' = [pc EXCEPT ![p] = "db_start"]
          /\ UNCHANGED <<errVars, codecVars, pathVars, no_zstd, heap_dir, conf, conf_tmp,
                 sentinel, db, lock, cfg, config_held, result, wfd, file,
                 handles, unlock_calls, prev_ok, prev_conf, opens_left,
                 rival, crashes, faults>>
       \/ /\ faults < MaxFaults
          /\ lock' = Released(p)
          /\ pc' = [pc EXCEPT ![p] = "idle"]
          /\ result' = [result EXCEPT ![p] = "IoFault"]
          /\ file' = [file EXCEPT ![p] = NoInode]
          /\ prev_ok' = NobodyOk
          /\ prev_conf' = Forget(prev_ok')
          /\ faults' = faults + 1
          /\ UNCHANGED <<errVars, codecVars, pathVars, no_zstd, heap_dir, conf, conf_tmp,
                 sentinel, db, cfg, config_held, wfd, handles, unlock_calls,
                 opens_left, rival, crashes>>

\* The RunningConfig is made and Db::start_inner(config) runs
\* (config.rs:88-94); when it fails the RunningConfig is dropped in it.
DbStart(p) ==
    /\ pc[p] = "db_start"
    /\ \/ /\ pc' = [pc EXCEPT ![p] = "idle"]
          /\ result' = [result EXCEPT ![p] = "Ok"]
          /\ handles' = [handles EXCEPT ![p][1] = "live"]
          /\ unlock_calls' = [unlock_calls EXCEPT ![p] = 0]
          /\ prev_ok' = [r \in Procs |-> r = p]
          /\ prev_conf' = [r \in Procs |-> IF r = p THEN conf ELSE Absent]
          /\ UNCHANGED <<errVars, codecVars, pathVars, no_zstd, heap_dir, conf, conf_tmp,
                 sentinel, db, lock, cfg, config_held, wfd, file, opens_left,
                 rival, crashes, faults>>
       \/ /\ faults < MaxFaults
          /\ lock' = Released(p)
          /\ pc' = [pc EXCEPT ![p] = "idle"]
          /\ result' = [result EXCEPT ![p] = "IoFault"]
          /\ file' = [file EXCEPT ![p] = NoInode]
          /\ unlock_calls' = [unlock_calls EXCEPT ![p] = 1]
          /\ prev_ok' = NobodyOk
          /\ prev_conf' = Forget(prev_ok')
          /\ faults' = faults + 1
          /\ UNCHANGED <<errVars, codecVars, pathVars, no_zstd, heap_dir, conf, conf_tmp,
                 sentinel, db, cfg, config_held, wfd, handles, opens_left,
                 rival, crashes>>

\* impl Clone for RunningConfig (running_config.rs:20-28).
CloneHandle(p, h) ==
    /\ SessionAlive(p)
    /\ handles[p][h] = "none"
    /\ handles' = [handles EXCEPT ![p][h] = "live"]
    /\ UNCHANGED <<errVars, codecVars, pathVars, no_zstd, heap_dir, conf, conf_tmp, sentinel, db,
           lock, cfg, config_held, pc, result, wfd, file, unlock_calls,
           prev_ok, prev_conf, opens_left, rival, crashes, faults>>

\* A faulty variant: every drop unlocks, whatever the count.
DropCheckAlwaysUnlocks(p, h) ==
    /\ handles[p][h] = "live"
    /\ handles' = [handles EXCEPT ![p][h] = "dropping"]
    /\ rival' = StillRivalled
    /\ lock' = Released(p)
    /\ unlock_calls' = [unlock_calls EXCEPT ![p] = @ + 1]
    /\ prev_ok' = Touched(p)
    /\ prev_conf' = Forget(prev_ok')
    /\ UNCHANGED <<errVars, codecVars, pathVars, no_zstd, heap_dir, conf, conf_tmp, sentinel, db, cfg,
          config_held, pc, result, wfd, file, opens_left, crashes, faults>>

\* impl Drop for RunningConfig (running_config.rs:38-46): the body of drop
\* reads the count and unlocks when it is 1.
DropCheck(p, h) ==
    /\ handles[p][h] = "live"
    /\ \/ /\ StrongCount(p) = 1
          /\ lock' = Released(p)
          /\ handles' = [handles EXCEPT ![p][h] = "dropping"]
          /\ unlock_calls' = [unlock_calls EXCEPT ![p] = @ + 1]
          /\ prev_ok' = Touched(p)
          /\ prev_conf' = Forget(prev_ok')
          /\ rival' = StillRivalled
          /\ UNCHANGED <<errVars, codecVars, pathVars, no_zstd, heap_dir, conf, conf_tmp,
                 sentinel, db, cfg, config_held, pc, result, wfd, file,
                 opens_left, crashes, faults>>
       \/ /\ StrongCount(p) # 1
          /\ handles' = [handles EXCEPT ![p][h] = "dropping"]
          /\ rival' = StillRivalled
          /\ UNCHANGED <<errVars, codecVars, pathVars, no_zstd, heap_dir, conf, conf_tmp,
                 sentinel, db, lock, cfg, config_held, pc, result, wfd, file,
                 unlock_calls, prev_ok, prev_conf, opens_left, crashes,
                 faults>>

\* After the body of drop, the fields are dropped in order: inner (the
\* Config, whose last clone removes a temporary directory, inner.rs:35-43),
\* then file (the last reference closes it, which frees its lock).
DropFields(p, h) ==
    /\ handles[p][h] = "dropping"
    /\ \/ /\ StrongCount(p) # 1
          /\ handles' = [handles EXCEPT ![p][h] = "none"]
          /\ UNCHANGED <<errVars, codecVars, pathVars, no_zstd, heap_dir, conf, conf_tmp,
                 sentinel, db, lock, cfg, config_held, pc, result, wfd, file,
                 unlock_calls, prev_ok, prev_conf, opens_left, rival,
                 crashes, faults>>
       \/ /\ StrongCount(p) = 1
          /\ config_held[p] \/ ~cfg[p].temporary
          /\ lock' = Released(p)
          /\ file' = [file EXCEPT ![p] = NoInode]
          /\ handles' = [handles EXCEPT ![p][h] = "none"]
          /\ prev_ok' = Touched(p)
          /\ prev_conf' = Forget(prev_ok')
          /\ UNCHANGED <<errVars, codecVars, pathVars, no_zstd, heap_dir, conf, conf_tmp,
                 sentinel, db, cfg, config_held, pc, result, wfd,
                 unlock_calls, opens_left, rival, crashes, faults>>
       \/ /\ StrongCount(p) = 1
          /\ ~config_held[p]
          /\ cfg[p].temporary
          /\ heap_dir' = FALSE
          /\ conf' = Absent
          /\ conf_tmp' = Absent
          /\ sentinel' = FALSE
          /\ db' = NoInode
          /\ lock' = Released(p)
          /\ wfd' = [q \in Procs |-> IF wfd[q] = "none" THEN "none" ELSE "gone"]
          /\ file' = [file EXCEPT ![p] = NoInode]
          /\ handles' = [handles EXCEPT ![p][h] = "none"]
          /\ prev_ok' = NobodyOk
          /\ prev_conf' = Forget(prev_ok')
          /\ UNCHANGED <<errVars, codecVars, pathVars, no_zstd, cfg, config_held, pc, result,
                 unlock_calls, opens_left, rival, crashes, faults>>

\* A faulty variant: dropping the caller's Config removes a temporary
\* directory even while a RunningConfig still holds a clone.
DropConfigIgnoresClones(p) ==
    /\ pc[p] = "idle"
    /\ config_held[p]
    /\ \/ /\ cfg[p].temporary
          /\ heap_dir' = FALSE
          /\ conf' = Absent
          /\ conf_tmp' = Absent
          /\ sentinel' = FALSE
          /\ db' = NoInode
          /\ config_held' = [config_held EXCEPT ![p] = FALSE]
          /\ wfd' = [q \in Procs |-> IF wfd[q] = "none" THEN "none" ELSE "gone"]
          /\ prev_ok' = NobodyOk
          /\ prev_conf' = Forget(prev_ok')
          /\ UNCHANGED <<errVars, codecVars, pathVars, no_zstd, lock, cfg, pc, result,
                 file, handles, unlock_calls, opens_left, rival, crashes,
                 faults>>
       \/ /\ ~cfg[p].temporary
          /\ config_held' = [config_held EXCEPT ![p] = FALSE]
          /\ UNCHANGED <<errVars, codecVars, pathVars, no_zstd, heap_dir, conf, conf_tmp,
                 sentinel, db, lock, cfg, pc, result, wfd, file, handles,
                 unlock_calls, prev_ok, prev_conf, opens_left, rival,
                 crashes, faults>>

\* The caller drops its Config; impl Drop for Inner (inner.rs:35-43) runs
\* when that was the last clone.
DropConfig(p) ==
    /\ pc[p] = "idle"
    /\ config_held[p]
    /\ \/ /\ NoHandles(p)
          /\ cfg[p].temporary
          /\ heap_dir' = FALSE
          /\ conf' = Absent
          /\ conf_tmp' = Absent
          /\ sentinel' = FALSE
          /\ db' = NoInode
          /\ config_held' = [config_held EXCEPT ![p] = FALSE]
          /\ wfd' = [q \in Procs |-> IF wfd[q] = "none" THEN "none" ELSE "gone"]
          /\ prev_ok' = NobodyOk
          /\ prev_conf' = Forget(prev_ok')
          /\ UNCHANGED <<errVars, codecVars, pathVars, no_zstd, lock, cfg, pc, result, file,
                 handles, unlock_calls, opens_left, rival, crashes, faults>>
       \/ /\ ~NoHandles(p) \/ ~cfg[p].temporary
          /\ config_held' = [config_held EXCEPT ![p] = FALSE]
          /\ UNCHANGED <<errVars, codecVars, pathVars, no_zstd, heap_dir, conf, conf_tmp,
                 sentinel, db, lock, cfg, pc, result, wfd, file, handles,
                 unlock_calls, prev_ok, prev_conf, opens_left, rival,
                 crashes, faults>>

\* ConfigBuilder::build (builder.rs:91-93): the same options, a new Config.
Build(p) ==
    /\ pc[p] = "idle"
    /\ ~config_held[p]
    /\ NoHandles(p)
    /\ config_held' = [config_held EXCEPT ![p] = TRUE]
    /\ UNCHANGED <<errVars, codecVars, pathVars, no_zstd, heap_dir, conf, conf_tmp, sentinel, db,
           lock, cfg, pc, result, wfd, file, handles, unlock_calls, prev_ok,
           prev_conf, opens_left, rival, crashes, faults>>

\* The process dies: no destructor runs, its files are closed by the
\* system (which frees its lock), and what it was writing may be cut short.
Crash(p) ==
    /\ crashes < MaxCrashes
    /\ pc[p] # "idle" \/ ~NoHandles(p)
    /\ \E w \in PartialWrites(p) :
           /\ conf_tmp' = TmpAfterWrite(p, w.off, w.data)
           /\ conf' = ConfAfterWrite(p, w.off, w.data)
    /\ lock' = Released(p)
    /\ config_held' = [config_held EXCEPT ![p] = FALSE]
    /\ pc' = [pc EXCEPT ![p] = "idle"]
    /\ result' = [result EXCEPT ![p] = "none"]
    /\ wfd' = [wfd EXCEPT ![p] = "none"]
    /\ file' = [file EXCEPT ![p] = NoInode]
    /\ handles' = [handles EXCEPT ![p] = [h \in Handles |-> "none"]]
    /\ unlock_calls' = [unlock_calls EXCEPT ![p] = 0]
    /\ prev_ok' = NobodyOk
    /\ prev_conf' = Forget(prev_ok')
    /\ rival' = StillRivalled
    /\ crashes' = crashes + 1
    /\ UNCHANGED <<errVars, codecVars, pathVars, no_zstd, heap_dir, sentinel, db, cfg, opens_left,
           faults>>

\* ---- specifications of the pipeline ----------------------------------------

PipeNext ==
    \/ \E p \in Procs : Open(p)
    \/ \E p \in Procs : CreateHeapDir(p)
    \/ \E p \in Procs : VerifyConfig(p)
    \/ \E p \in Procs : WcOpen(p)
    \/ \E p \in Procs : WcBytes(p)
    \/ \E p \in Procs : WcCrc(p)
    \/ \E p \in Procs : WcFsync(p)
    \/ \E p \in Procs : WcRename(p)
    \/ \E p \in Procs : WcDirFsync(p)
    \/ \E p \in Procs : Sentinel(p)
    \/ \E p \in Procs : DbOpen(p)
    \/ \E p \in Procs : TryLock(p)
    \/ \E p \in Procs : DirFsync(p)
    \/ \E p \in Procs : HeapStart(p)
    \/ \E p \in Procs : DbStart(p)
    \/ \E p \in Procs : \E h \in Handles : CloneHandle(p, h)
    \/ \E p \in Procs : \E h \in Handles : DropCheck(p, h)
    \/ \E p \in Procs : \E h \in Handles : DropFields(p, h)
    \/ \E p \in Procs : DropConfig(p)
    \/ \E p \in Procs : Build(p)
    \/ \E p \in Procs : Crash(p)

\* The open pipeline, the sessions and the crashes, with the register idle.
\* The configurations of the concurrent opens_left: those that pass validate().
SessionConfigs ==
    { DefaultOptions,
      [DefaultOptions EXCEPT !.use_compression = TRUE],
      [DefaultOptions EXCEPT !.create_new = TRUE],
      [DefaultOptions EXCEPT !.temporary = TRUE] }

Init ==
    /\ ErrInit
    /\ PipeStart
    /\ cfg \in [Procs -> SessionConfigs]
    /\ opens_left = MaxRacingOpens

Spec == Init /\ [][PipeNext]_vars

\* The same, with the opens_left in sequence: a process steps only while no
\* other process is inside open().
OthersIdle(p) == \A q \in Procs \ {p} : pc[q] = "idle"

SeqNext ==
    \/ \E p \in Procs : OthersIdle(p) /\ Open(p)
    \/ \E p \in Procs : OthersIdle(p) /\ CreateHeapDir(p)
    \/ \E p \in Procs : OthersIdle(p) /\ VerifyConfig(p)
    \/ \E p \in Procs : OthersIdle(p) /\ WcOpen(p)
    \/ \E p \in Procs : OthersIdle(p) /\ WcBytes(p)
    \/ \E p \in Procs : OthersIdle(p) /\ WcCrc(p)
    \/ \E p \in Procs : OthersIdle(p) /\ WcFsync(p)
    \/ \E p \in Procs : OthersIdle(p) /\ WcRename(p)
    \/ \E p \in Procs : OthersIdle(p) /\ WcDirFsync(p)
    \/ \E p \in Procs : OthersIdle(p) /\ Sentinel(p)
    \/ \E p \in Procs : OthersIdle(p) /\ DbOpen(p)
    \/ \E p \in Procs : OthersIdle(p) /\ TryLock(p)
    \/ \E p \in Procs : OthersIdle(p) /\ DirFsync(p)
    \/ \E p \in Procs : OthersIdle(p) /\ HeapStart(p)
    \/ \E p \in Procs : OthersIdle(p) /\ DbStart(p)
    \/ \E p \in Procs : \E h \in Handles : CloneHandle(p, h)
    \/ \E p \in Procs : \E h \in Handles : DropCheck(p, h)
    \/ \E p \in Procs : \E h \in Handles : DropFields(p, h)
    \/ \E p \in Procs : DropConfig(p)
    \/ \E p \in Procs : Build(p)
    \/ \E p \in Procs : Crash(p)

InitSeq ==
    /\ ErrInit
    /\ PipeStart
    /\ cfg \in [Procs -> PipelineConfigs]
    /\ opens_left = MaxOpens

SpecSeq == InitSeq /\ [][SeqNext]_vars

\* The options validate() is given: around every limit of its rules.
ValidateSegmentSizes ==
    {0, 1, 128, 200, 255, 256, 257, 384, 524288, 16777216, 16777217, 33554432}
ValidateLevels == {-1, 0, 1, 5, 22, 23}
ValidateIntervals == {0, 1, 1000000}

ValidateConfigs ==
    {[DefaultOptions EXCEPT !.segment_size = s, !.use_compression = u,
                            !.compression_factor = l,
                            !.idgen_persist_interval = i] :
        s \in ValidateSegmentSizes, u \in BOOLEAN, l \in ValidateLevels,
        i \in ValidateIntervals}

ValidateInit ==
    /\ CodecOff
    /\ PathOff
    /\ no_zstd \in BOOLEAN
    /\ heap_dir \in BOOLEAN
    /\ conf \in IF heap_dir THEN {Absent, Record(DefaultOptions)} ELSE {Absent}
    /\ conf_tmp = Absent
    /\ sentinel = FALSE
    /\ db = NoInode
    /\ lock = [i \in Inodes |-> NoProc]
    /\ \E c \in ValidateConfigs : cfg = [p \in Procs |-> c]
    /\ config_held = [p \in Procs |-> p = 1]
    /\ pc = [p \in Procs |-> "idle"]
    /\ result = [p \in Procs |-> "none"]
    /\ wfd = [p \in Procs |-> "none"]
    /\ file = [p \in Procs |-> NoInode]
    /\ handles = [p \in Procs |-> [h \in Handles |-> "none"]]
    /\ unlock_calls = [p \in Procs |-> 0]
    /\ prev_ok = [p \in Procs |-> FALSE]
    /\ prev_conf = [p \in Procs |-> Absent]
    /\ rival = [p \in Procs |-> FALSE]
    /\ opens_left = 1
    /\ crashes = 0
    /\ faults = 0

\* open() of one Config with any of these options, on any of these disks,
\* up to the creation of the heap directory.
ValidateNext == Open(1) \/ CreateHeapDir(1)

InitValidate == ErrInit /\ ValidateInit

SpecValidate == InitValidate /\ [][ValidateNext]_vars

\* ---- one open() against a stored configuration ---------------------------

\* The configurations of the reconciliation: the default, and one that
\* differs from it in the compression flag, in the segment size, in the
\* minor and in the major version.
VerifyConfigs ==
    { DefaultOptions,
      [DefaultOptions EXCEPT !.use_compression = TRUE],
      [DefaultOptions EXCEPT !.segment_size = 1048576],
      [DefaultOptions EXCEPT !.version = <<0, 33>>],
      [DefaultOptions EXCEPT !.version = <<1, 34>>] }

\* The record of c with a checksum that does not match its bytes.
BadCrcRecord(c) ==
    ConfigBytes(c) \o [Crc32Arr(ConfigBytes(c)) EXCEPT ![1] = (@ + 1) % 256]

\* What conf may hold when open() is called: nothing, a record that was
\* cut short, a complete record, or a record with a damaged checksum.
StoredFiles ==
    {Absent, <<>>}
    \cup {SubSeq(Record(DefaultOptions), 1, n) : n \in {4, 8, 9, 30}}
    \cup {Record(c) : c \in VerifyConfigs}
    \cup {BadCrcRecord(c) : c \in VerifyConfigs}

\* What conf.tmp may hold when open() is called: nothing, or the record
\* that a write_config killed before its rename left behind.
StagedFiles == {Absent, Record(DefaultOptions)}

VerifyInit ==
    /\ CodecOff
    /\ PathOff
    /\ no_zstd = FALSE
    /\ conf \in StoredFiles
    /\ conf_tmp \in StagedFiles
    /\ heap_dir \in (IF conf = Absent /\ conf_tmp = Absent
                         THEN BOOLEAN ELSE {TRUE})
    /\ sentinel = FALSE
    /\ db = NoInode
    /\ lock = [i \in Inodes |-> NoProc]
    /\ \E c \in VerifyConfigs : cfg = [p \in Procs |-> c]
    /\ config_held = [p \in Procs |-> p = 1]
    /\ pc = [p \in Procs |-> "idle"]
    /\ result = [p \in Procs |-> "none"]
    /\ wfd = [p \in Procs |-> "none"]
    /\ file = [p \in Procs |-> NoInode]
    /\ handles = [p \in Procs |-> [h \in Handles |-> "none"]]
    /\ unlock_calls = [p \in Procs |-> 0]
    /\ prev_ok = [p \in Procs |-> FALSE]
    /\ prev_conf = [p \in Procs |-> Absent]
    /\ rival = [p \in Procs |-> FALSE]
    /\ opens_left = 1
    /\ crashes = 0
    /\ faults = 0

\* One open() of process 1, from its call to its return.
VerifyNext ==
    \E p \in {1} :
        \/ Open(p)
        \/ CreateHeapDir(p)
        \/ VerifyConfig(p)
        \/ WcOpen(p)
        \/ WcBytes(p)
        \/ WcCrc(p)
        \/ WcFsync(p)
        \/ WcRename(p)
        \/ WcDirFsync(p)
        \/ Sentinel(p)
        \/ DbOpen(p)
        \/ TryLock(p)
        \/ DirFsync(p)
        \/ HeapStart(p)
        \/ DbStart(p)

InitVerify == ErrInit /\ VerifyInit

SpecVerify == InitVerify /\ [][VerifyNext]_vars

\* ---- serialize, then deserialize -----------------------------------------

\* Segment sizes of one to nine digits, the default among them.
CodecSegmentSizes == {0, 1, 9, 10, 256, 524288, 999999999}

\* Versions of one to three digits in either place.
CodecVersions == {<<0, 0>>, <<0, 34>>, <<1, 0>>, <<34, 0>>, <<12, 345>>}

CodecParams ==
    [segment_size : CodecSegmentSizes, use_compression : BOOLEAN,
     version : CodecVersions]

\* PipeStart with a StorageParameters value about to be serialized.
CodecInit ==
    /\ sparams \in CodecParams
    /\ out = <<>>
    /\ parsed = ParseErr("none")
    /\ codec_pc = "start"
    /\ PathOff
    /\ no_zstd = FALSE
    /\ heap_dir = FALSE
    /\ conf = Absent
    /\ conf_tmp = Absent
    /\ sentinel = FALSE
    /\ db = NoInode
    /\ lock = [i \in Inodes |-> NoProc]
    /\ cfg = [p \in Procs |-> DefaultOptions]
    /\ config_held = [p \in Procs |-> TRUE]
    /\ pc = [p \in Procs |-> "idle"]
    /\ result = [p \in Procs |-> "none"]
    /\ wfd = [p \in Procs |-> "none"]
    /\ file = [p \in Procs |-> NoInode]
    /\ handles = [p \in Procs |-> [h \in Handles |-> "none"]]
    /\ unlock_calls = [p \in Procs |-> 0]
    /\ prev_ok = [p \in Procs |-> FALSE]
    /\ prev_conf = [p \in Procs |-> Absent]
    /\ rival = [p \in Procs |-> FALSE]
    /\ opens_left = 0
    /\ crashes = 0
    /\ faults = 0

\* The rest of the state while a value makes its round trip.
CodecFrame ==
    UNCHANGED <<errVars, no_zstd, fsVars, procVars, histVars, pathVars>>

CodecNext ==
    \/ SerializeStep /\ CodecFrame
    \/ DeserializeStep /\ CodecFrame

InitCodec == ErrInit /\ CodecInit

SpecCodec == InitCodec /\ [][CodecNext]_vars

\* The register, with no open() running.
PipeOff ==
    /\ PipeStart
    /\ cfg = [p \in Procs |-> DefaultOptions]
    /\ opens_left = 0

InitErr == ErrInit /\ PipeOff

SpecErr == InitErr /\ [][ErrNext]_vars

\* The steps of a call of thread t that is under way: a thread that has
\* entered one of the three functions runs it to its end.
ThreadSteps(t) ==
    \/ GlobalErrorSteps(t)
    \/ SetSteps(t)
    \/ ResetSteps(t)

\* The collector destroys the deferred cell a.
CollectOf(a) ==
    /\ EbrCollect
    /\ \E g \in garbage : g.ptr = a
    /\ ~mem'[a].live

\* Owned::new never waits for memory: in a heap of NumAddrs cells a call of
\* set_global_error starts only when a free cell is left for it besides
\* those the calls already on their way to Owned::new will take.
HeapHasRoom ==
    Cardinality({a \in Addrs : ~mem[a].live /\ \A g \in garbage : g.ptr # a})
        > Cardinality({u \in Threads : tpc[u] \in {"set_pin", "set_new"}})

\* The calls of the fair scenario.
FairNext ==
    \/ \E t \in Threads : CallGlobalError(t)
    \/ \E t \in Threads : \E e \in Errors :
          HeapHasRoom /\ CallSetGlobalError(t, e)
    \/ \E t \in Threads : CallResetGlobalError(t)
    \/ \E t \in Threads : ThreadSteps(t)
    \/ EbrCollect

\* The register under fair scheduling: no thread stops in the middle of a
\* call it can go on with, so that every thread eventually leaves its
\* critical section, and the collector gets to every deferred cell that
\* nobody waits for.
SpecErrFair ==
    /\ InitErr
    /\ [][FairNext]_vars
    /\ \A t \in Threads : WF_vars(ThreadSteps(t))
    /\ \A a \in Addrs : WF_vars(CollectOf(a))

\* The racing first writers of the register.
InitSetRace == SetRaceInit /\ PipeOff

SpecSetRace == InitSetRace /\ [][SetRaceNext]_vars

(***************************************************************************)
(* Part 4.  Temporary paths and the path of a builder.                     *)
(***************************************************************************)

\* ---- u128 arithmetic -----------------------------------------------------

\* The u128 whose low limbs are given.
U128(lo) ==
    AsLimbs([i \in 1..U128Limbs |-> IF i <= Len(lo) THEN lo[i] ELSE 0],
            U128Limbs)

\* The carry into limb i of a + b.
RECURSIVE Carry(_, _, _)
Carry(a, b, i) ==
    IF i = 1 THEN 0
    ELSE (a[i - 1] + b[i - 1] + Carry(a, b, i - 1)) \div LimbBase

\* a + b on u128. The sums of gen_temp_path stay far below 2^128 for any
\* clock of this era, so that the overflow check of a debug build never
\* fires; the sum is taken modulo 2^128.
AddU128(a, b) ==
    AsLimbs([i \in 1..U128Limbs |->
                (a[i] + b[i] + Carry(a, b, i)) % LimbBase], U128Limbs)

\* a << bits on u128, for a shift of whole limbs: the bits pushed past the
\* top are lost.
ShlU128(a, bits) ==
    AsLimbs([i \in 1..U128Limbs |->
                IF i <= bits \div 16 THEN 0 ELSE a[i - bits \div 16]],
            U128Limbs)

\* The width of usize on the target.
UsizeBits == 64

\* A u128 cut to the width of usize: AtomicUsize::fetch_add wraps around.
WrapUsize(a) ==
    AsLimbs([i \in 1..U128Limbs |->
                IF i <= UsizeBits \div 16 THEN a[i] ELSE 0], U128Limbs)

\* The remainder of (the limbs of a from i upwards) divided by ten.
RECURSIVE RemTen(_, _)
RemTen(a, i) ==
    IF i > U128Limbs THEN 0 ELSE (RemTen(a, i + 1) * LimbBase + a[i]) % 10

\* a divided by ten.
QuotTen(a) ==
    AsLimbs([i \in 1..U128Limbs |->
                (RemTen(a, i + 1) * LimbBase + a[i]) \div 10], U128Limbs)

\* {} formatting of a u128: its decimal digits.
RECURSIVE FmtU128(_)
FmtU128(a) ==
    IF QuotTen(a) = ZeroU128 THEN <<48 + RemTen(a, 1)>>
    ELSE FmtU128(QuotTen(a)) \o <<48 + RemTen(a, 1)>>

\* ---- gen_temp_path (mod.rs:36-65) -----------------------------------------

\* "/dev/shm/pagecache.tmp." (target_os = "linux").
TmpPrefix ==
    <<47, 100, 101, 118, 47, 115, 104, 109, 47, 112, 97, 103, 101, 99, 97,
      99, 104, 101, 46, 116, 109, 112, 46>>

\* let salt = (pid << 16) + now + seed, where now is already << 48.
Salt(p, n, s) == AddU128(AddU128(ShlU128(p, 16), n), s)

\* format!("/dev/shm/pagecache.tmp.{}", salt).
TempPath(p, n, s) == TmpPrefix \o FmtU128(Salt(p, n, s))

\* Bounds: the calls of gen_temp_path that are followed step by step, the
\* runs of further calls, and how far the clock readings lie apart.
MaxTempCalls == 3
MaxBursts == 1
MaxClockSteps == 1

\* SystemTime::now() as nanoseconds since the epoch: a reading of
\* 2026-11-04 and the nanoseconds next to it. SystemTime is not monotonic,
\* so a call may read any of them whatever an earlier call read.
ClockBase == U128(<<27925, 60816, 52211, 6372>>)
ClockReadings ==
    {AddU128(ClockBase, U128(<<k>>)) : k \in 0..MaxClockSteps}

\* The process ids a process may have: 1 and 4194303.
ProcessIds == {U128(<<1>>), U128(<<65535, 63>>)}

\* The lengths of the runs of calls that are not followed one by one:
\* 2^48 - 1 and 2^64 - 1 calls.
BurstLengths ==
    {U128(<<65535, 65535, 65535>>), U128(<<65535, 65535, 65535, 65535>>)}

\* ---- the builder and its path (builder.rs) --------------------------------

\* DEFAULT_PATH (mod.rs:21): "default.sled".
DEFAULT_PATH == <<100, 101, 102, 97, 117, 108, 116, 46, 115, 108, 101, 100>>

\* The pieces of a path between its separators.
RECURSIVE Pieces(_)
Pieces(s) ==
    IF Find(s, <<47>>, 1) = 0 THEN <<s>>
    ELSE <<SubSeq(s, 1, Find(s, <<47>>, 1) - 1)>>
         \o Pieces(SubSeq(s, Find(s, <<47>>, 1) + 1, Len(s)))

IsNormalPiece(x) == x # <<>> /\ x # <<46>>

\* Path::components: whether the path starts at the root, whether it starts
\* with ".", and its normal components; repeated separators, a trailing
\* separator and "." anywhere but at the start leave no component.
Components(p) ==
    [root |-> p # <<>> /\ p[1] = 47,
     curdir |-> Pieces(p)[1] = <<46>>,
     parts |-> SelectSeq(Pieces(p), IsNormalPiece)]

\* PathBuf == PathBuf compares the components.
PathEq(a, b) == Components(a) = Components(b)

\* ConfigBuilder::default (builder.rs:49-77) with tmp_path: gen_temp_path().
BuilderDefault(tmp) ==
    [made |-> TRUE, path |-> DEFAULT_PATH, tmp_path |-> tmp,
     options |-> DefaultOptions]

\* ConfigBuilder::get_path (builder.rs:103-109).
GetPath(b) ==
    IF b.options.temporary /\ PathEq(b.path, DEFAULT_PATH)
    THEN b.tmp_path
    ELSE b.path

\* The paths the user sets.
BuilderPaths ==
    { DEFAULT_PATH,
      <<100, 101, 102, 97, 117, 108, 116, 46, 115, 108, 101, 100, 47>>,
      <<46, 47, 100, 101, 102, 97, 117, 108, 116, 46, 115, 108, 101, 100>>,
      <<100, 98>> }

\* The options set through the builder! macro, and the segment sizes.
BuilderFlags == {"temporary", "use_compression"}
BuilderSegmentSizes == {524288, 1048576}

\* The rest of the state while paths are generated and builders are set up.
PathFrame ==
    UNCHANGED <<errVars, no_zstd, fsVars, procVars, histVars, codecVars>>

\* let seed = SALT_COUNTER.fetch_add(1, SeqCst) as u128 (mod.rs:43).
GenFetchAdd(t) ==
    /\ gen_pc[t] = "idle"
    /\ gen_calls < MaxTempCalls
    /\ seed' = [seed EXCEPT ![t] = salt_counter]
    /\ salt_counter' = WrapUsize(AddU128(salt_counter, U128(<<1>>)))
    /\ gen_pc' = [gen_pc EXCEPT ![t] = "now"]
    /\ gen_calls' = gen_calls + 1
    /\ UNCHANGED <<pid, now, temp_paths, bursts, builder, explicit_path,
                   got_path>>
    /\ PathFrame

\* let now = SystemTime::now()...as_nanos() << 48 (mod.rs:45-49).
GenNow(t) ==
    /\ gen_pc[t] = "now"
    /\ \E r \in ClockReadings : now' = [now EXCEPT ![t] = ShlU128(r, 48)]
    /\ gen_pc' = [gen_pc EXCEPT ![t] = "salt"]
    /\ UNCHANGED <<salt_counter, pid, seed, temp_paths, gen_calls, bursts,
                   builder, explicit_path, got_path>>
    /\ PathFrame

\* The salt and the path (mod.rs:52-64); the call returns into
\* ConfigBuilder::default (builder.rs:54), its only caller, which makes the
\* thread's new builder.
GenSalt(t) ==
    /\ gen_pc[t] = "salt"
    /\ builder' =
          [builder EXCEPT
              ![t] = BuilderDefault(TempPath(pid, now[t], seed[t]))]
    /\ temp_paths' = Append(temp_paths, builder'[t].tmp_path)
    /\ explicit_path' = [explicit_path EXCEPT ![t] = NoPath]
    /\ got_path' = [got_path EXCEPT ![t] = NoPath]
    /\ gen_pc' = [gen_pc EXCEPT ![t] = "idle"]
    /\ UNCHANGED <<salt_counter, pid, seed, now, gen_calls, bursts>>
    /\ PathFrame

\* A run of n calls of gen_temp_path from start to end, made for builders
\* that are not followed: the counter is all that keeps a trace of them.
GenBurst(n) ==
    /\ bursts < MaxBursts
    /\ salt_counter' = WrapUsize(AddU128(salt_counter, n))
    /\ bursts' = bursts + 1
    /\ UNCHANGED <<pid, gen_pc, seed, now, temp_paths, gen_calls, builder,
                   explicit_path, got_path>>
    /\ PathFrame

\* ConfigBuilder::path (builder.rs:111-114).
SetPath(t, p) ==
    /\ builder[t].made
    /\ builder' = [builder EXCEPT ![t].path = p]
    /\ explicit_path' = [explicit_path EXCEPT ![t] = p]
    /\ UNCHANGED <<salt_counter, pid, gen_pc, seed, now, temp_paths,
                   gen_calls, bursts, got_path>>
    /\ PathFrame

\* A setter of the builder! macro (builder.rs:79-89, 205-237).
SetFlag(t, name, to) ==
    /\ builder[t].made
    /\ builder' = [builder EXCEPT ![t].options[name] = to]
    /\ UNCHANGED <<salt_counter, pid, gen_pc, seed, now, temp_paths,
                   gen_calls, bursts, explicit_path, got_path>>
    /\ PathFrame

\* ConfigBuilder::segment_size (builder.rs:141-178): every field is moved
\* into a builder of the new segment type.
SegmentSize(b, size) ==
    [made |-> TRUE, path |-> b.path, tmp_path |-> b.tmp_path,
     options |-> [b.options EXCEPT !.segment_size = size]]

SetSegmentSize(t, size) ==
    /\ builder[t].made
    /\ builder' = [builder EXCEPT ![t] = SegmentSize(builder[t], size)]
    /\ UNCHANGED <<salt_counter, pid, gen_pc, seed, now, temp_paths,
                   gen_calls, bursts, explicit_path, got_path>>
    /\ PathFrame

\* builder.get_path().
CallGetPath(t) ==
    /\ builder[t].made
    /\ got_path' = [got_path EXCEPT ![t] = GetPath(builder[t])]
    /\ UNCHANGED <<salt_counter, pid, gen_pc, seed, now, temp_paths,
                   gen_calls, bursts, builder, explicit_path>>
    /\ PathFrame

\* ---- the specifications of the paths --------------------------------------

\* A process that has made no builder yet, with any of the process ids.
PathInit ==
    /\ CodecOff
    /\ salt_counter = ZeroU128
    /\ pid \in ProcessIds
    /\ gen_pc = [t \in Threads |-> "idle"]
    /\ seed = [t \in Threads |-> ZeroU128]
    /\ now = [t \in Threads |-> ZeroU128]
    /\ temp_paths = <<>>
    /\ gen_calls = 0
    /\ bursts = 0
    /\ builder = [t \in Threads |-> NoBuilder]
    /\ explicit_path = [t \in Threads |-> NoPath]
    /\ got_path = [t \in Threads |-> NoPath]
    /\ no_zstd = FALSE
    /\ heap_dir = FALSE
    /\ conf = Absent
    /\ conf_tmp = Absent
    /\ sentinel = FALSE
    /\ db = NoInode
    /\ lock = [i \in Inodes |-> NoProc]
    /\ cfg = [p \in Procs |-> DefaultOptions]
    /\ config_held = [p \in Procs |-> TRUE]
    /\ pc = [p \in Procs |-> "idle"]
    /\ result = [p \in Procs |-> "none"]
    /\ wfd = [p \in Procs |-> "none"]
    /\ file = [p \in Procs |-> NoInode]
    /\ handles = [p \in Procs |-> [h \in Handles |-> "none"]]
    /\ unlock_calls = [p \in Procs |-> 0]
    /\ prev_ok = [p \in Procs |-> FALSE]
    /\ prev_conf = [p \in Procs |-> Absent]
    /\ rival = [p \in Procs |-> FALSE]
    /\ opens_left = 0
    /\ crashes = 0
    /\ faults = 0

\* The threads make builders, at the same time or one after another.
TempPathNext ==
    \/ \E t \in Threads : GenFetchAdd(t)
    \/ \E t \in Threads : GenNow(t)
    \/ \E t \in Threads : GenSalt(t)
    \/ \E n \in BurstLengths : GenBurst(n)

InitTempPath == ErrInit /\ PathInit

SpecTempPath == InitTempPath /\ [][TempPathNext]_vars

\* One thread makes builders, calls their setters and asks for the path.
BuilderNext ==
    \E t \in {1} :
        \/ GenFetchAdd(t)
        \/ GenNow(t)
        \/ GenSalt(t)
        \/ \E p \in BuilderPaths : SetPath(t, p)
        \/ \E name \in BuilderFlags : \E to \in BOOLEAN : SetFlag(t, name, to)
        \/ \E size \in BuilderSegmentSizes : SetSegmentSize(t, size)
        \/ CallGetPath(t)

InitBuilder == ErrInit /\ PathInit

SpecBuilder == InitBuilder /\ [][BuilderNext]_vars

(***************************************************************************)
(* Claims about open(), the persisted record and the lock.                 *)
(***************************************************************************)

\* Process p's open() returns in this step: it is not killed, and no I/O
\* fault is what ends it.
Returns(p) ==
    pc[p] # "idle" /\ pc'[p] = "idle" /\ crashes' = crashes /\ faults' = faults

CompleteRecords == {Record(c) : c \in PipelineConfigs}

\* C4: with opens in sequence, no I/O fault and any crash, conf is at every
\* moment absent or one complete record: the serialized parameters of some
\* configuration followed by their 4-byte checksum.
C4_ConfAbsentOrCompleteRecord ==
    faults = 0 => (conf = Absent \/ conf \in CompleteRecords)

C6_UnlockedExactlyOnce ==
    \A p \in Procs :
        result[p] = "Ok" /\ pc[p] = "idle" /\ NoHandles(p) /\ crashes = 0
        => unlock_calls[p] = 1

\* ---- C7: the rules of validate, stated on the options ---------------------

IsPowerOfTwo(n) == \E k \in 0..30 : n = 2^k

BrokenRule(c) ==
    \/ c.segment_size = 0
    \/ ~IsPowerOfTwo(c.segment_size)
    \/ c.segment_size < 256
    \/ c.segment_size > 2^24
    \/ c.compression_factor \notin 1..22
    \/ c.idgen_persist_interval = 0

C8_ValidateFailureTouchesNothing ==
    [][\A p \in Procs :
          Open(p) /\ pc'[p] = "idle" /\ result'[p] = "Unsupported"
          => UNCHANGED fsVars]_vars

\* open() failed in validate() where no directory existed, and none exists.
C8_Witness ==
    /\ result[1] = "Unsupported"
    /\ pc[1] = "idle"
    /\ opens_left = 0
    /\ cfg[1].segment_size = 200
    /\ ~heap_dir
    /\ conf = Absent
    /\ db = NoInode

\* C9: with opens in sequence and no I/O fault, an open() of a process
\* whose previous open() succeeded, with the same options (not create_new)
\* and nobody touching the directory in between, succeeds and leaves conf
\* as the first open() left it.
C9_SecondOpenSucceeds ==
    [][\A p \in Procs :
          prev_ok[p] /\ ~cfg[p].create_new /\ Returns(p) /\ faults = 0
          => result'[p] = "Ok" /\ conf' = prev_conf[p]]_vars

\* C10: when verify_config finds a record whose compression flag is not the
\* requested one, open() returns Unsupported there and conf stays as it is.
C10_CompressionMismatchRejected ==
    [][\A p \in Procs :
          /\ pc[p] = "verify" /\ pc'[p] # "verify"
          /\ crashes' = crashes /\ faults' = faults
          /\ ReadConfig(conf).tag = "Ok"
          /\ ReadConfig(conf).params.use_compression # cfg[p].use_compression
          => /\ pc'[p] = "idle"
             /\ result'[p] = "Unsupported"
             /\ conf' = conf
             /\ conf_tmp' = conf_tmp]_vars

\* Compression was turned on over a record written with compression off,
\* everything else being equal, and open() was refused.
C10_Witness ==
    \E p \in Procs :
        /\ pc[p] = "idle"
        /\ result[p] = "Unsupported"
        /\ cfg[p].use_compression
        /\ conf = Record(DefaultOptions)
        /\ cfg[p] = [DefaultOptions EXCEPT !.use_compression = TRUE]

\* verify_config of process p returns or goes on in this step, with no I/O
\* fault and no kill.
Verifies(p) ==
    /\ pc[p] = "verify" /\ pc'[p] # "verify"
    /\ crashes' = crashes /\ faults' = faults

\* C11: when verify_config finds a record whose segment size is not the
\* configuration's, open() returns Unsupported there and conf stays as it is.
C11_SegmentSizeMismatchRejected ==
    [][\A p \in Procs :
          /\ Verifies(p)
          /\ ReadConfig(conf).tag = "Ok"
          /\ ReadConfig(conf).params.segment_size # cfg[p].segment_size
          => /\ pc'[p] = "idle"
             /\ result'[p] = "Unsupported"
             /\ conf' = conf
             /\ conf_tmp' = conf_tmp]_vars

\* A record written for 512 KiB segments was opened with 1 MiB segments,
\* everything else being equal, and open() was refused.
C11_Witness ==
    /\ pc[1] = "idle"
    /\ result[1] = "Unsupported"
    /\ cfg[1] = [DefaultOptions EXCEPT !.segment_size = 1048576]
    /\ conf = Record(DefaultOptions)

\* C12: when the record's compression flag and segment size are the
\* configuration's, verify_config returns Unsupported if the versions differ
\* in either number, and lets open() go on only if the versions are equal.
C12_VersionMismatchRejected ==
    [][\A p \in Procs :
          /\ Verifies(p)
          /\ ReadConfig(conf).tag = "Ok"
          /\ ReadConfig(conf).params.use_compression = cfg[p].use_compression
          /\ ReadConfig(conf).params.segment_size = cfg[p].segment_size
          => /\ ReadConfig(conf).params.version # cfg[p].version
                => pc'[p] = "idle" /\ result'[p] = "Unsupported"
             /\ ReadConfig(conf).params.version = cfg[p].version
                => pc'[p] = "sentinel" /\ result'[p] = "none"
             /\ conf' = conf]_vars

\* A record of version 0.34 was opened by version 0.33, everything else
\* being equal, and open() was refused.
C12_Witness ==
    /\ pc[1] = "idle"
    /\ result[1] = "Unsupported"
    /\ cfg[1] = [DefaultOptions EXCEPT !.version = <<0, 33>>]
    /\ conf = Record(DefaultOptions)

\* The last four bytes of f are not the checksum of the bytes before them.
ChecksumFails(f) ==
    SubSeq(f, Len(f) - 3, Len(f)) # Crc32Arr(Payload(f))

\* C13: for a conf of more than 8 bytes whose checksum does not match,
\* verify_config acts on what the bytes before the checksum parse to: it
\* never writes a new conf, it goes on when they hold the configuration's
\* parameters, it returns Unsupported when they hold other parameters, and
\* it returns the parse error when they do not parse.
C13_BadChecksumStillParsed ==
    [][\A p \in Procs :
          /\ Verifies(p)
          /\ conf # Absent
          /\ Len(conf) > 8
          /\ ChecksumFails(conf)
          => /\ pc'[p] # "wc_open"
             /\ conf' = conf
             /\ LET d == Deserialize(Payload(conf)) IN
                /\ d.tag # "Ok" => pc'[p] = "idle" /\ result'[p] = d.tag
                /\ (d.tag = "Ok" /\ d.params = StorageParameters(cfg[p]))
                      => pc'[p] = "sentinel"
                /\ (d.tag = "Ok" /\ d.params # StorageParameters(cfg[p]))
                      => pc'[p] = "idle" /\ result'[p] = "Unsupported"]_vars

\* open() succeeded on a record of its own parameters whose checksum does
\* not match, and left it as it was.
C13_Witness ==
    /\ pc[1] = "idle"
    /\ result[1] = "Ok"
    /\ conf = BadCrcRecord(cfg[1])
    /\ ChecksumFails(conf)

\* C14: a StorageParameters value that was serialized and then deserialized
\* comes back as Ok of the same value.
C14_RoundTrip ==
    codec_pc = "done" => parsed = [tag |-> "Ok", params |-> sparams]

\* A round trip of nine-digit segments, compression on, version 12.345 is
\* over.
C14_Witness ==
    /\ codec_pc = "done"
    /\ out = Serialize(sparams)
    /\ sparams = [segment_size |-> 999999999, use_compression |-> TRUE,
                  version |-> <<12, 345>>]

\* C15: the swap of reset_global_error leaves the register empty, whether
\* it held an error or not; a global_error() that reads the empty register
\* returns Ok(()); a set_global_error(e) whose compare-and-swap finds the
\* register empty installs e.
C15_ResetEmptiesRegister ==
    [][\A t \in Threads :
          /\ (tpc[t] = "reset_swap" /\ tpc'[t] = "reset_defer")
                => /\ global_error' = Null
                   /\ loaded'[t] = global_error
          /\ (tpc[t] = "ge_load" /\ tpc'[t] = "ge_deref" /\ global_error = Null)
                => loaded'[t] = Null
          /\ (tpc[t] = "ge_deref" /\ tpc'[t] = "idle" /\ loaded[t] = Null)
                => ret'[t] = RetOk
          /\ (tpc[t] = "set_cas" /\ tpc'[t] = "set_ret" /\ global_error = Null)
                => /\ global_error' # Null
                   /\ mem'[global_error'].live
                   /\ mem'[global_error'].val = errArg[t]]_vars

\* A reset removed an error that is still waiting to be reclaimed, and a
\* later set_global_error installed another error in its place.
C15_Witness ==
    /\ global_error # Null
    /\ mem[global_error].live
    /\ \E g \in garbage :
          /\ g.ptr # global_error
          /\ mem[g.ptr].val # mem[global_error].val
    /\ \E t \in Threads :
          tpc[t] = "set_ret" /\ errArg[t] = mem[global_error].val

\* The swap of a reset_global_error has just taken the error at a out of
\* the register.
Removed(a) == \E t \in Threads : tpc[t] = "reset_defer" /\ loaded[t] = a

\* C16: when threads that are inside a call run it to its end, an error that
\* reset_global_error took out of the register is eventually destroyed,
\* whatever calls come later.
C16_ReclamationEventuallyRuns ==
    \A a \in Addrs : Removed(a) ~> ~mem[a].live

\* An error was read, was taken out of the register and destroyed, and a
\* later reader is inside its critical section with the register empty.
C16_Witness ==
    /\ global_error = Null
    /\ garbage = {}
    /\ \A a \in Addrs : ~mem[a].live
    /\ \E u \in Threads : ret[u] \in Errors
    /\ \E t \in Threads : tpc[t] = "ge_deref" /\ loaded[t] = Null

\* The clones of the Config of p that are alive: the caller's, and the one
\* in every RunningConfig whose fields have not been dropped yet.
ConfigClones(p) == (IF config_held[p] THEN 1 ELSE 0) + StrongCount(p)

OpenOrder ==
    { <<"idle", "heap_dir">>, <<"heap_dir", "verify">>,
      <<"verify", "wc_open">>, <<"wc_open", "wc_bytes">>,
      <<"wc_bytes", "wc_crc">>, <<"wc_crc", "wc_fsync">>,
      <<"wc_fsync", "wc_rename">>, <<"wc_rename", "wc_dirsync">>,
      <<"wc_dirsync", "sentinel">>, <<"verify", "sentinel">>,
      <<"sentinel", "db_open">>, <<"db_open", "try_lock">>,
      <<"try_lock", "dir_fsync">>, <<"dir_fsync", "heap_start">>,
      <<"heap_start", "db_start">> }

\* The errors open() returns.
OpenErrors ==
    {"Unsupported", "Corruption", "IoFault", "IoNotFound", "IoExists", "IoLock"}

\* C18: open() goes through validate, the creation of the heap directory,
\* verify_config, the sentinel and the opening of db, the lock, the fsync
\* of the directory and the start of the heap in this order; each effect
\* happens at its step only; a step that fails returns its error at once;
\* and when verify_config fails, db, the sentinel and the lock are as
\* they were.
C18_OpenStepsInOrder ==
    [][crashes' = crashes =>
        /\ \A p \in Procs :
            /\ (pc'[p] # pc[p] /\ pc'[p] # "idle")
                  => <<pc[p], pc'[p]>> \in OpenOrder
            /\ (pc'[p] # pc[p] /\ pc'[p] = "idle" /\ pc[p] # "db_start")
                  => result'[p] \in OpenErrors
            /\ (pc[p] = "idle" /\ result'[p] # result[p]
                  /\ result'[p] \in OpenErrors)
                  => (pc'[p] = "idle" /\ Validate(cfg[p], no_zstd) # "Ok")
            /\ (pc[p] = "verify" /\ pc'[p] # "verify"
                  /\ VerifyOutcome(cfg[p], conf) \notin {"Write", "Ok"})
                  => /\ pc'[p] = "idle"
                     /\ result'[p] \in OpenErrors
                     /\ UNCHANGED <<sentinel, db, lock, file, conf>>
            /\ (file[p] = NoInode /\ file'[p] # NoInode) => pc[p] = "db_open"
            /\ (\E i \in Inodes : lock[i] # p /\ lock'[i] = p)
                  => pc[p] = "try_lock"
        /\ (~heap_dir /\ heap_dir') => \E p \in Procs : pc[p] = "heap_dir"
        /\ (~sentinel /\ sentinel') => \E p \in Procs : pc[p] = "sentinel"
        /\ (db = NoInode /\ db' # NoInode) => \E p \in Procs : pc[p] = "db_open"
      ]_vars

\* verify_config failed in an open() that found the directory locked by a
\* live session of another configuration: the lock, db and the sentinel of
\* that session are untouched.
C18_Witness ==
    \E p \in Procs : \E q \in Procs \ {p} :
        /\ pc[p] = "idle"
        /\ result[p] = "Unsupported"
        /\ file[p] = NoInode
        /\ SessionAlive(q)
        /\ db # NoInode
        /\ lock[db] = q
        /\ sentinel

\* The steps of write_config in their order.
WriteOrder ==
    { <<"wc_open", "wc_bytes">>, <<"wc_bytes", "wc_crc">>,
      <<"wc_crc", "wc_fsync">>, <<"wc_fsync", "wc_rename">>,
      <<"wc_rename", "wc_dirsync">>, <<"wc_dirsync", "sentinel">> }

\* The positions of write_config before its rename.
BeforeRename == {"wc_open", "wc_bytes", "wc_crc", "wc_fsync"}

\* C19: write_config opens conf.tmp, writes the bytes, writes the checksum,
\* syncs the file, renames it over conf and syncs the directory, in this
\* order; a step that fails returns an I/O error at once; no step before
\* the rename changes conf, a rename that fails does not either, and a
\* rename that succeeds makes conf what conf.tmp was.
C19_WriteConfigStepsInOrder ==
    [][crashes' = crashes =>
        \A p \in Procs :
            (pc[p] \in BeforeRename \cup {"wc_rename", "wc_dirsync"}
                /\ pc'[p] # pc[p])
            => /\ \/ <<pc[p], pc'[p]>> \in WriteOrder
                  \/ /\ pc'[p] = "idle"
                     /\ result'[p] \in {"IoFault", "IoNotFound"}
               /\ pc[p] \in BeforeRename => conf' = conf
               /\ (pc[p] = "wc_rename" /\ pc'[p] = "idle") => conf' = conf
               /\ (pc[p] = "wc_rename" /\ pc'[p] = "wc_dirsync")
                     => conf' = conf_tmp /\ conf_tmp' = Absent
               /\ pc[p] = "wc_dirsync" => conf' = conf
      ]_vars

\* read_config finds no prior configuration in f: f is missing or holds at
\* most 8 bytes.
NoPriorConfig(f) == f = Absent \/ Len(f) <= 8

\* C20: verify_config goes on to write_config exactly when conf is missing
\* or holds at most 8 bytes; it leaves a conf of more than 8 bytes as it
\* is; and the conf that its write_config puts in place is the record of
\* the current parameters.
C20_WritesOnlyWithoutPriorConfig ==
    [][\A p \in Procs :
          /\ Verifies(p)
                => /\ pc'[p] = "wc_open" <=> NoPriorConfig(conf)
                   /\ conf' = conf
          /\ (pc[p] = "wc_rename" /\ pc'[p] = "wc_dirsync")
                => conf' = Record(cfg[p])]_vars


(***************************************************************************)
(* Claims about the paths.                                                 *)
(***************************************************************************)

\* The path the description promises for thread t's builder: the path the
\* user set if there is one, else the generated path of a temporary
\* builder, else the default.
PromisedPath(t) ==
    IF explicit_path[t] # NoPath THEN explicit_path[t]
    ELSE IF builder[t].options.temporary THEN builder[t].tmp_path
    ELSE DEFAULT_PATH

\* A step that leaves thread t's builder the builder it was: no new
\* builder is made in it.
SameBuilder(t) == builder[t].made /\ gen_pc[t] # "salt"

\* The generated path of a builder is the one ConfigBuilder::default gave
\* it, through every setter and every call of get_path.
TmpPathFixed ==
    \A t \in Threads :
        SameBuilder(t) => builder'[t].tmp_path = builder[t].tmp_path

\* C21: get_path() returns the path the user set whenever there is one,
\* whatever that path is and whether or not temporary is set; without one
\* it returns the builder's generated path when temporary is set and the
\* default path otherwise; and the generated path of a builder never
\* changes, whichever setter is called, segment_size included.
C21_GetPathResolution ==
    [][/\ \A t \in Threads :
             CallGetPath(t) => got_path'[t] = PromisedPath(t)
       /\ TmpPathFixed]_vars


\* C22: any two calls of gen_temp_path in one process return different
\* paths, whether they run one after the other or at the same time on
\* different threads, and whatever the clock and the counter give them.
C22_TempPathsDistinct ==
    \A i, j \in 1..Len(temp_paths) :
        i # j => temp_paths[i] # temp_paths[j]


(***************************************************************************)
(* Claims about racing opens, the staged record and the drop of handles.   *)
(***************************************************************************)

\* The processes were given different persisted parameters.
DifferentParameters ==
    \E p, q \in Procs : StorageParameters(cfg[p]) # StorageParameters(cfg[q])

\* The record in f is a readable record of the parameters of c.
HoldsParametersOf(f, c) ==
    /\ ReadConfig(f).tag = "Ok"
    /\ ReadConfig(f).params = StorageParameters(c)

\* C23: when open() calls with different persisted parameters run on one
\* directory in any interleaving, an open() that returns the live session,
\* holding the lock of the data file, leaves in conf the record of that
\* session's own parameters.
C23_ConfIsTheLiveSessions ==
    [][\A p \in Procs :
          /\ DifferentParameters
          /\ Returns(p) /\ result'[p] = "Ok"
          /\ file'[p] = db' /\ lock'[db'] = p
          => HoldsParametersOf(conf', cfg[p])]_vars


\* write_config of process p returns Ok(()): its last step, the fsync of
\* the directory, succeeds.
WriteConfigReturnsOk(p) == pc[p] = "wc_dirsync" /\ pc'[p] = "sentinel"

\* C24: when write_config returns successfully, conf holds the serialized
\* parameters followed by their 4-byte checksum and nothing more, whatever
\* conf.tmp held before the call, a longer stale conf.tmp included; and
\* read_config then returns the parameters just written.
C24_WriteConfigLeavesExactRecord ==
    [][\A p \in Procs :
          WriteConfigReturnsOk(p)
          => /\ conf' = ConfigBytes(cfg[p]) \o Crc32Arr(ConfigBytes(cfg[p]))
             /\ HoldsParametersOf(conf', cfg[p])]_vars


\* The drop of handle h of process p takes a step: the body of drop, or
\* the drop of the fields after it.
DropStep(p, h) ==
    /\ crashes' = crashes
    /\ \/ handles[p][h] = "live" /\ handles'[p][h] = "dropping"
       \/ handles[p][h] = "dropping" /\ handles'[p][h] = "none"

\* The step releases the lock of p's data file: unlock() is called, or the
\* lock that p held is gone after it.
ReleasesLock(p) ==
    \/ unlock_calls'[p] = unlock_calls[p] + 1
    \/ /\ file[p] # NoInode
       /\ lock[file[p]] = p
       /\ lock'[file[p]] # p

\* C25: the drop of a RunningConfig releases the file lock only when no
\* other clone with the same file handle is left, whatever the order and
\* the interleaving of the clones and the drops.
C25_NoReleaseWhileCloneAlive ==
    [][\A p \in Procs : \A h \in Handles :
          DropStep(p, h) /\ ReleasesLock(p)
          => \A k \in Handles \ {h} : handles[p][k] = "none"]_vars

\* A session was cloned, the handle open() returned was dropped while the
\* clone was alive and left the lock in place, and the drop of the clone
\* has called unlock().
C25_Witness ==
    \E p \in Procs :
        /\ result[p] = "Ok"
        /\ pc[p] = "idle"
        /\ crashes = 0
        /\ handles[p][1] = "none"
        /\ handles[p][2] = "dropping"
        /\ unlock_calls[p] = 1
        /\ file[p] # NoInode
        /\ lock[file[p]] # p

=============================================================================
